---- MODULE Spec2Model ----
(***************************************************************************)
(* Insight Weaver: the relational store (feeds, articles, workspace items, *)
(* reports, report items, settings), the feed fetcher, the workspace       *)
(* ordering model and the report composer, as a state machine.             *)
(*                                                                         *)
(* Every store operation (one awaited D1 statement or batch) is one step.  *)
(* Handlers that issue several statements are processes whose position is  *)
(* kept in a record; handlers whose statements linearize at one point are  *)
(* one action.                                                             *)
(***************************************************************************)
EXTENDS Integers, Sequences, FiniteSets, TLC

\* ---------------------------------------------------------------- bounds
MaxFeed == 2          \* feed ids 1..MaxFeed
MaxUrl == 2           \* urls 1..MaxUrl
MaxDocLen == 2        \* entries in one parsed document
MaxArticleId == 2     \* article rows ever inserted (fresh ids)
MaxWsId == 3          \* workspace items ever inserted (fresh ids)
MaxReportId == 1      \* reports ever inserted (fresh ids)
MaxListLen == 2       \* length of a reorder request's itemIds
MaxSetting == 2       \* values 1..MaxSetting of max_articles_per_feed

\* ------------------------------------------------------ program constants
DefaultMaxArticles == 50

NULL == "<null>"
Undefined == "<undefined>"
MissingId == 0       \* a request body without the id (falsy)

FeedIds == 1..MaxFeed
Urls == 1..MaxUrl
WsIds == 1..MaxWsId
FetchProcs == {1, 2}
AddProcs == {1, 2}
TextValues == {"x"}

\* published_at of the entry with url u in every document that carries it
\* (dates 1 and 2, with ties and with url order differing from date order)
PubDateOf(u) == (u % 2) + 1

VARIABLES
  feeds,            \* rss_feeds rows: [id, isActive, lastFetched]
  articles,         \* articles rows: [id, feedId, url, publishedAt]
  workspace_items,  \* rows: [id, articleId, order, customContent, customAnalysis, isEdited]
  reports,          \* rows: [id, status]
  report_items,     \* rows: [reportId, workspaceItemId, orderIndex]
  maxSetting,       \* settings rows with key max_articles_per_feed: {} or {value}
  settings,         \* the other settings rows: [key, value]
  nextArticleId,    \* crypto.randomUUID(): the next unused article id
  nextWsId,
  nextReportId,
  fetch,            \* fetchFeed calls in flight
  add,              \* POST /workspace/items requests in flight
  rep,              \* the POST /reports request in flight
  exp,              \* the GET /reports/:id/export request in flight
  all,              \* the fetchAllFeeds call
  reset,            \* the POST /settings/reset request in flight
  snapshotOf,       \* history: the workspace items each stored report was created from
  last              \* the request or call that returned in the last step

vars == <<feeds, articles, workspace_items, reports, report_items, maxSetting,
          settings, nextArticleId, nextWsId, nextReportId, fetch, add, rep, exp, all,
          reset, snapshotOf, last>>

dbVars == <<feeds, articles, workspace_items, reports, report_items, maxSetting, settings>>

\* ---------------------------------------------------------------- helpers
Max(S) == CHOOSE x \in S : \A y \in S : y <= x
Min(a, b) == IF a <= b THEN a ELSE b

Ids(rows) == {r.id : r \in rows}

NoOp == [op |-> "step"]

IdleFetch == [pc |-> "idle"]
IdleAdd == [pc |-> "idle"]
IdleRep == [pc |-> "idle"]
IdleExp == [pc |-> "idle"]
IdleAll == [pc |-> "idle"]
IdleReset == [pc |-> "idle"]

\* the keys of the default settings other than max_articles_per_feed, and
\* the two keys only PATCH /settings writes
DefaultKeys ==
  {"ai_provider", "ai_system_prompt", "ai_max_tokens", "ai_temperature", "refresh_interval"}
SettingKeys == DefaultKeys \cup {"ai_api_key", "ai_model"}

\* 'INSERT OR IGNORE INTO settings (key, value) VALUES ...': a row's value
\* is the default of its key or another one
DefaultSettings == {[key |-> k, value |-> "default"] : k \in DefaultKeys}

\* no report has a recorded snapshot
NoSnapshots == [r \in 1..MaxReportId |-> <<>>]

\* new Date().toISOString(): a time, whatever the stored value t was
Later(t) == "t"

Quiet ==
  /\ \A p \in FetchProcs : fetch[p].pc = "idle"
  /\ \A p \in AddProcs : add[p].pc = "idle"
  /\ rep.pc = "idle"
  /\ exp.pc = "idle"

\* --------------------------------------------------- schema: foreign keys
\* ON DELETE CASCADE of report_items.workspace_item_id
CascadeReportItems(ris, wsRows) ==
  {ri \in ris : ri.workspaceItemId \in Ids(wsRows)}

\* (mutant) workspace_items.article_id without ON DELETE CASCADE
CascadeWorkspaceItems_None(wsRows, arts) == wsRows

\* ON DELETE CASCADE of workspace_items.article_id
CascadeWorkspaceItems(wsRows, arts) ==
  {w \in wsRows : w.articleId \in Ids(arts)}

\* ON DELETE CASCADE of articles.feed_id
CascadeArticles(arts, fds) ==
  {a \in arts : a.feedId \in Ids(fds)}

\* the store after the article rows become arts2
DeleteArticlesTo(arts2) ==
  LET ws2 == CascadeWorkspaceItems(workspace_items, arts2) IN
  /\ articles' = arts2
  /\ workspace_items' = ws2
  /\ report_items' = CascadeReportItems(report_items, ws2)

\* what the cascades of a DELETE removed: the workspace items and the number
\* of report_items rows that are in the store before it and not after it
Cascaded(ws2, ris2) ==
  [items |-> Ids(workspace_items) \ Ids(ws2),
   links |-> Cardinality(report_items \ ris2)]

\* the store after the workspace rows become ws2
DeleteWorkspaceItemsTo(ws2) ==
  /\ workspace_items' = ws2
  /\ report_items' = CascadeReportItems(report_items, ws2)

\* ------------------------------------------------------------------ Init
Init ==
  /\ feeds = {[id |-> f, isActive |-> TRUE, lastFetched |-> NULL] : f \in FeedIds}
  /\ articles = {}
  /\ workspace_items = {}
  /\ reports = {}
  /\ report_items = {}
  /\ maxSetting \in {{v} : v \in 1..MaxSetting}
  /\ settings = DefaultSettings
  /\ nextArticleId = 1
  /\ nextWsId = 1
  /\ nextReportId = 1
  /\ fetch = [p \in FetchProcs |-> IdleFetch]
  /\ add = [p \in AddProcs |-> IdleAdd]
  /\ rep = IdleRep
  /\ exp = IdleExp
  /\ all = IdleAll
  /\ reset = IdleReset
  /\ snapshotOf = NoSnapshots
  /\ last = NoOp

\* ============================================================ workspace
\* (mutant) the existence check never finds a row
ExistingItem_Never(wsRows, articleId) == FALSE

\* 'SELECT id FROM workspace_items WHERE article_id = ?' ... first()
ExistingItem(wsRows, articleId) ==
  \E w \in wsRows : w.articleId = articleId

\* (mutant) the next order index is the number of rows
NextOrder_Count(wsRows) == Cardinality(wsRows)

\* 'SELECT COALESCE(MAX(order_index), -1) + 1 as next_order', then
\* maxOrderResult?.next_order || 0
NextOrder(wsRows) ==
  LET maxOrder == IF wsRows = {} THEN -1 ELSE Max({w.order : w \in wsRows})
      next_order == maxOrder + 1
  IN IF next_order = 0 THEN 0 ELSE next_order

\* (mutant) workspace_items with UNIQUE (article_id)
InsertItemAccepted_Unique(wsRows, arts, articleId) ==
  /\ articleId \in Ids(arts)
  /\ \A w \in wsRows : w.articleId # articleId

\* INSERT INTO workspace_items: the only constraint on the row is the
\* foreign key article_id (there is no UNIQUE (article_id))
InsertItemAccepted(wsRows, arts, articleId) ==
  articleId \in Ids(arts)

NewItem(id, articleId, orderIndex) ==
  [id |-> id, articleId |-> articleId, order |-> orderIndex,
   customContent |-> NULL, customAnalysis |-> NULL, isEdited |-> FALSE]

\* an answer of POST /workspace/items without a created item
AddAnswer(status, articleId) ==
  [op |-> "addToWorkspace", status |-> status, articleId |-> articleId]

\* POST /workspace/items: body validation and db.getArticle(articleId)
AddStart(p, articleId) ==
  /\ add[p].pc = "idle"
  /\ nextWsId + Cardinality({q \in AddProcs : add[q].pc # "idle"}) <= MaxWsId
  /\ IF articleId = MissingId
       THEN /\ last' = AddAnswer(400, articleId)
            /\ UNCHANGED add
       ELSE IF articleId \notin Ids(articles)
         THEN /\ last' = AddAnswer(404, articleId)
              /\ UNCHANGED add
         ELSE /\ add' = [add EXCEPT ![p] = [pc |-> "check", articleId |-> articleId]]
              /\ last' = NoOp
  /\ UNCHANGED <<dbVars, nextArticleId, nextWsId, nextReportId, fetch, rep, exp, all, reset, snapshotOf>>

\* the existence check before the insert
AddCheck(p) ==
  /\ add[p].pc = "check"
  /\ IF ExistingItem(workspace_items, add[p].articleId)
       THEN /\ add' = [add EXCEPT ![p] = IdleAdd]
            /\ last' = AddAnswer(409, add[p].articleId)
       ELSE /\ add' = [add EXCEPT ![p] = [pc |-> "max", articleId |-> add[p].articleId]]
            /\ last' = NoOp
  /\ UNCHANGED <<dbVars, nextArticleId, nextWsId, nextReportId, fetch, rep, exp, all, reset, snapshotOf>>

\* db.addToWorkspace: the query for the next order index
AddMax(p) ==
  /\ add[p].pc = "max"
  /\ add' = [add EXCEPT ![p] = [pc |-> "insert", articleId |-> add[p].articleId,
                                orderIndex |-> NextOrder(workspace_items)]]
  /\ last' = NoOp
  /\ UNCHANGED <<dbVars, nextArticleId, nextWsId, nextReportId, fetch, rep, exp, all, reset, snapshotOf>>

\* db.addToWorkspace: the INSERT; a constraint failure is answered with 500
AddInsert(p) ==
  /\ add[p].pc = "insert"
  /\ IF InsertItemAccepted(workspace_items, articles, add[p].articleId)
       THEN /\ workspace_items' = workspace_items \cup
                 {NewItem(nextWsId, add[p].articleId, add[p].orderIndex)}
            /\ nextWsId' = nextWsId + 1
            /\ last' = [op |-> "addToWorkspace", status |-> 201,
                        articleId |-> add[p].articleId, id |-> nextWsId]
       ELSE /\ last' = AddAnswer(500, add[p].articleId)
            /\ UNCHANGED <<workspace_items, nextWsId>>
  /\ add' = [add EXCEPT ![p] = IdleAdd]
  /\ UNCHANGED <<feeds, articles, reports, report_items, maxSetting, settings,
                 nextArticleId, nextReportId, fetch, rep, exp, all, reset, snapshotOf>>

\* (mutant) a column that is not supplied is written as NULL
UpdatedRow_ClearsOmitted(w, customContent, customAnalysis) ==
  [w EXCEPT
     !.customContent = IF customContent # Undefined THEN customContent ELSE NULL,
     !.customAnalysis = IF customAnalysis # Undefined THEN customAnalysis ELSE NULL,
     !.isEdited = IF customContent # Undefined \/ customAnalysis # Undefined
                    THEN TRUE ELSE @]

\* (mutant) is_edited is written as "customContent was supplied"
UpdatedRow_EditedIsContent(w, customContent, customAnalysis) ==
  [w EXCEPT
     !.customContent = IF customContent # Undefined THEN customContent ELSE @,
     !.customAnalysis = IF customAnalysis # Undefined THEN customAnalysis ELSE @,
     !.isEdited = customContent # Undefined]

\* UPDATE workspace_items SET <supplied columns> WHERE id = ?
UpdatedRow(w, customContent, customAnalysis) ==
  [w EXCEPT
     !.customContent = IF customContent # Undefined THEN customContent ELSE @,
     !.customAnalysis = IF customAnalysis # Undefined THEN customAnalysis ELSE @,
     !.isEdited = IF customContent # Undefined \/ customAnalysis # Undefined
                    THEN TRUE ELSE @]

UpdateInputs == {Undefined, NULL} \cup TextValues

\* PATCH /workspace/items/:id -> db.updateWorkspaceItem(id, updates).  The
\* SELECT and the UPDATE name the same row by a fresh id, so the handler
\* linearizes at the UPDATE (at the SELECT when no field is supplied).
UpdateWorkspaceItem(id, customContent, customAnalysis) ==
  /\ IF id \notin Ids(workspace_items)
       THEN /\ last' = [op |-> "updateWorkspaceItem", status |-> 404, id |-> id,
                        customContent |-> customContent, customAnalysis |-> customAnalysis]
            /\ UNCHANGED workspace_items
       ELSE /\ workspace_items' =
                 {IF w.id = id THEN UpdatedRow(w, customContent, customAnalysis) ELSE w
                    : w \in workspace_items}
            /\ last' = [op |-> "updateWorkspaceItem", status |-> 200, id |-> id,
                        customContent |-> customContent, customAnalysis |-> customAnalysis]
  /\ UNCHANGED <<feeds, articles, reports, report_items, maxSetting, settings,
                 nextArticleId, nextWsId, nextReportId, fetch, add, rep, exp, all, reset, snapshotOf>>

\* DELETE /workspace/items/:id -> db.removeFromWorkspace(id)
RemoveFromWorkspace(id) ==
  /\ DeleteWorkspaceItemsTo({w \in workspace_items : w.id # id})
  /\ last' = [op |-> "removeFromWorkspace", id |-> id,
              status |-> IF id \in Ids(workspace_items) THEN 200 ELSE 404]
  /\ UNCHANGED <<feeds, articles, reports, maxSetting, settings,
                 nextArticleId, nextWsId, nextReportId, fetch, add, rep, exp, all, reset, snapshotOf>>

\* POST /workspace/clear
ClearWorkspace ==
  /\ DeleteWorkspaceItemsTo({})
  /\ last' = [op |-> "clear", status |-> 200]
  /\ UNCHANGED <<feeds, articles, reports, maxSetting, settings,
                 nextArticleId, nextWsId, nextReportId, fetch, add, rep, exp, all, reset, snapshotOf>>

\* (mutant) the order is bound to the 1-based position
SetOrder_OneBased(wsRows, itemId, index) ==
  {IF w.id = itemId THEN [w EXCEPT !.order = index + 1] ELSE w : w \in wsRows}

\* (mutant) the statement replaces the row instead of updating one column
SetOrder_ReplacesRow(wsRows, itemId, index) ==
  {IF w.id = itemId
     THEN [id |-> w.id, articleId |-> w.articleId, order |-> index,
           customContent |-> NULL, customAnalysis |-> NULL, isEdited |-> FALSE]
     ELSE w : w \in wsRows}

\* 'UPDATE workspace_items SET order_index = ? WHERE id = ?' bound to
\* (index, itemId)
SetOrder(wsRows, itemId, index) ==
  {IF w.id = itemId THEN [w EXCEPT !.order = index] ELSE w : w \in wsRows}

\* DB.batch(updates): the statements run in list order; itemIds[k] is the
\* element at the 0-based index k - 1
RECURSIVE ApplyUpdates(_, _, _)
ApplyUpdates(wsRows, itemIds, k) ==
  IF k > Len(itemIds) THEN wsRows
  ELSE ApplyUpdates(SetOrder(wsRows, itemIds[k], k - 1), itemIds, k + 1)

ReorderLists == UNION {[1..n -> WsIds] : n \in 0..MaxListLen}

\* POST /workspace/reorder
Reorder(isArray, itemIds) ==
  /\ IF ~isArray
       THEN /\ last' = [op |-> "reorder", status |-> 400, itemIds |-> itemIds]
            /\ UNCHANGED workspace_items
       ELSE /\ workspace_items' = ApplyUpdates(workspace_items, itemIds, 1)
            /\ last' = [op |-> "reorder", status |-> 200, itemIds |-> itemIds]
  /\ UNCHANGED <<feeds, articles, reports, report_items, maxSetting, settings,
                 nextArticleId, nextWsId, nextReportId, fetch, add, rep, exp, all, reset, snapshotOf>>

\* =========================================================== feed fetcher
\* a parsed entry: link (0 when the entry has none) and whether it has a title
Entries ==
  {[link |-> u, title |-> TRUE] : u \in Urls} \cup
  {[link |-> 0, title |-> TRUE], [link |-> 1, title |-> FALSE]}

Documents == UNION {[1..n -> Entries] : n \in 0..MaxDocLen}

\* getMaxArticlesPerFeed
GetMaxArticlesPerFeed(setting) ==
  IF setting = {} THEN DefaultMaxArticles ELSE CHOOSE v \in setting : TRUE

\* (mutant) every entry of the document is processed
Slice_All(items, maxArticles) == items

\* items.slice(0, maxArticles)
Slice(items, maxArticles) ==
  SubSeq(items, 1, Min(Len(items), maxArticles))

\* 'SELECT id FROM articles WHERE url = ?' ... first()
ExistingArticle(arts, url) ==
  \E a \in arts : a.url = url

\* (mutant) the articles table without UNIQUE on url
InsertArticleAccepted_NoUnique(arts, fds, feedId, url) ==
  feedId \in Ids(fds)

\* INSERT INTO articles: url TEXT NOT NULL UNIQUE and the foreign key feed_id
InsertArticleAccepted(arts, fds, feedId, url) ==
  /\ \A a \in arts : a.url # url
  /\ feedId \in Ids(fds)

\* (mutant) ORDER BY published_at ASC: the subquery keeps the oldest rows
KeepSets_Oldest(arts, feedId, maxArticles) ==
  LET own == {x \in arts : x.feedId = feedId} IN
  {K \in SUBSET own :
     /\ Cardinality(K) = Min(Cardinality(own), maxArticles)
     /\ \A k \in K : \A d \in own \ K : k.publishedAt <= d.publishedAt}

\* (mutant) the subquery keeps one row more than the limit
KeepSets_OffByOne(arts, feedId, maxArticles) ==
  LET own == {a \in arts : a.feedId = feedId} IN
  {K \in SUBSET own :
     /\ Cardinality(K) = Min(Cardinality(own), maxArticles + 1)
     /\ \A k \in K : \A d \in own \ K : k.publishedAt >= d.publishedAt}

\* the rows 'SELECT id FROM articles WHERE feed_id = ? ORDER BY published_at
\* DESC LIMIT ?' may return: rows with equal published_at come in any order
KeepSets(arts, feedId, maxArticles) ==
  LET own == {a \in arts : a.feedId = feedId} IN
  {K \in SUBSET own :
     /\ Cardinality(K) = Min(Cardinality(own), maxArticles)
     /\ \A k \in K : \A d \in own \ K : k.publishedAt >= d.publishedAt}

\* entries of a document that can still lead to an insert
RECURSIVE CountValid(_)
CountValid(items) ==
  IF items = <<>> THEN 0
  ELSE (IF Head(items).link # 0 /\ Head(items).title THEN 1 ELSE 0) + CountValid(Tail(items))

PendingInserts ==
  LET n(p) == IF fetch[p].pc \in {"loop", "insert"} THEN CountValid(fetch[p].items) ELSE 0
  IN n(1) + n(2)

\* { success: false, articlesAdded: 0, error }: error is the message of the
\* guard on the feed ("not found or inactive") or of what was thrown
FetchFailedWith(feedId, error) ==
  [op |-> "fetchFeed", feedId |-> feedId, success |-> FALSE, articlesAdded |-> 0,
   maxArticles |-> 0, trimmed |-> FALSE,
   cascaded |-> Cascaded(workspace_items, report_items), error |-> error]

\* the catch of fetchFeed: { success: false, articlesAdded: 0, error: error.message }
FetchFailed(feedId) == FetchFailedWith(feedId, "thrown")

\* (mutant) the guard looks at the row only, not at its is_active
FeedFetchable_AnyRow(fds, feedId) == \E f \in fds : f.id = feedId

\* the negation of 'if (!feed || !feed.isActive)'
FeedFetchable(fds, feedId) == \E f \in fds : f.id = feedId /\ f.isActive

\* fetchFeed(feedId): db.getRSSFeed and the guard on the feed
FetchStart(p, feedId) ==
  /\ fetch[p].pc = "idle"
  /\ IF FeedFetchable(feeds, feedId)
       THEN /\ fetch' = [fetch EXCEPT ![p] = [pc |-> "parse", feedId |-> feedId]]
            /\ last' = NoOp
       ELSE /\ last' = FetchFailedWith(feedId, "not found or inactive")
            /\ UNCHANGED fetch
  /\ UNCHANGED <<dbVars, nextArticleId, nextWsId, nextReportId, add, rep, exp, all, reset, snapshotOf>>

\* parser.parseURL (no store access: it commutes with every store step and
\* is taken together with the settings read that follows it), then
\* getMaxArticlesPerFeed and items.slice(0, maxArticles)
FetchParseDoc(p, doc, log) ==
  /\ fetch[p].pc = "parse"
  /\ LET maxArticles == GetMaxArticlesPerFeed(maxSetting)
         recentItems == Slice(doc, maxArticles)
     IN /\ nextArticleId - 1 + PendingInserts + CountValid(recentItems) <= MaxArticleId
        /\ fetch' = [fetch EXCEPT ![p] =
                       [pc |-> "loop", feedId |-> fetch[p].feedId,
                        items |-> recentItems, maxArticles |-> maxArticles,
                        articlesAdded |-> 0]]
        /\ last' = log
  /\ UNCHANGED <<dbVars, nextArticleId, nextWsId, nextReportId, add, rep, exp, all, reset, snapshotOf>>

\* parser.parseURL throws: the catch of fetchFeed
FetchParseThrows(p) ==
  /\ fetch[p].pc = "parse"
  /\ fetch' = [fetch EXCEPT ![p] = IdleFetch]
  /\ last' = FetchFailed(fetch[p].feedId)
  /\ UNCHANGED <<dbVars, nextArticleId, nextWsId, nextReportId, add, rep, exp, all, reset, snapshotOf>>

FetchParse(p) ==
  \/ FetchParseThrows(p)
  \/ \E doc \in Documents : FetchParseDoc(p, doc, NoOp)

\* one turn of 'for (const item of recentItems)' up to the existence query;
\* items holds the entries the loop has not finished yet
FetchCheck(p) ==
  /\ fetch[p].pc = "loop"
  /\ fetch[p].items # <<>>
  /\ LET item == Head(fetch[p].items) IN
       IF item.link = 0 \/ ~item.title
         THEN fetch' = [fetch EXCEPT ![p].items = Tail(@)]
         ELSE IF ExistingArticle(articles, item.link)
           THEN fetch' = [fetch EXCEPT ![p].items = Tail(@)]
           ELSE fetch' = [fetch EXCEPT ![p].pc = "insert"]
  /\ last' = NoOp
  /\ UNCHANGED <<dbVars, nextArticleId, nextWsId, nextReportId, add, rep, exp, all, reset, snapshotOf>>

\* the outcome of db.createArticle for one entry: the insert, or the
\* console.error of the per-entry catch
CreateArticleLog(feedId, url, inserted) ==
  [op |-> "createArticle", feedId |-> feedId, url |-> url, inserted |-> inserted]

\* db.createArticle inside the per-entry try/catch
FetchInsert(p) ==
  /\ fetch[p].pc = "insert"
  /\ LET item == Head(fetch[p].items)
         feedId == fetch[p].feedId
     IN IF InsertArticleAccepted(articles, feeds, feedId, item.link)
          THEN /\ articles' = articles \cup
                    {[id |-> nextArticleId, feedId |-> feedId, url |-> item.link,
                      publishedAt |-> PubDateOf(item.link)]}
               /\ nextArticleId' = nextArticleId + 1
               /\ fetch' = [fetch EXCEPT ![p].pc = "loop", ![p].items = Tail(@),
                                         ![p].articlesAdded = @ + 1]
               /\ last' = CreateArticleLog(feedId, item.link, TRUE)
          ELSE /\ fetch' = [fetch EXCEPT ![p].pc = "loop", ![p].items = Tail(@)]
               /\ last' = CreateArticleLog(feedId, item.link, FALSE)
               /\ UNCHANGED <<articles, nextArticleId>>
  /\ UNCHANGED <<feeds, workspace_items, reports, report_items, maxSetting, settings,
                 nextWsId, nextReportId, add, rep, exp, all, reset, snapshotOf>>

\* (mutant) the statement is not issued
SetLastFetched_Never(fds, feedId) == fds

\* 'UPDATE rss_feeds SET last_fetched = ? WHERE id = ?'
SetLastFetched(fds, feedId) ==
  {IF f.id = feedId THEN [f EXCEPT !.lastFetched = Later(@)] ELSE f : f \in fds}

\* db.updateRSSFeed(feedId, {lastFetched}): null for a feed that is not
\* stored; a statement that throws ends the call in the catch of fetchFeed
FetchUpdate(p) ==
  /\ fetch[p].pc = "loop"
  /\ fetch[p].items = <<>>
  /\ \/ /\ feeds' = SetLastFetched(feeds, fetch[p].feedId)
        /\ fetch' = [fetch EXCEPT ![p].pc = "cleanup"]
        /\ last' = NoOp
     \/ /\ fetch' = [fetch EXCEPT ![p] = IdleFetch]
        /\ last' = FetchFailed(fetch[p].feedId)
        /\ UNCHANGED feeds
  /\ UNCHANGED <<articles, workspace_items, reports, report_items, maxSetting, settings,
                 nextArticleId, nextWsId, nextReportId, add, rep, exp, all, reset, snapshotOf>>

\* cleanupOldArticles(feedId, maxArticles) and the return; a failure of the
\* DELETE is caught and logged
FetchCleanup(p) ==
  /\ fetch[p].pc = "cleanup"
  /\ LET feedId == fetch[p].feedId
         result(trimmed, cascaded) ==
           [op |-> "fetchFeed", feedId |-> feedId, success |-> TRUE,
            articlesAdded |-> fetch[p].articlesAdded,
            maxArticles |-> fetch[p].maxArticles, trimmed |-> trimmed,
            cascaded |-> cascaded, error |-> NULL]
     IN \/ /\ \E K \in KeepSets(articles, feedId, fetch[p].maxArticles) :
                DeleteArticlesTo({a \in articles : a.feedId # feedId} \cup K)
           /\ last' = result(TRUE, Cascaded(workspace_items', report_items'))
        \/ /\ last' = result(FALSE, Cascaded(workspace_items, report_items))
           /\ UNCHANGED <<articles, workspace_items, report_items>>
  /\ fetch' = [fetch EXCEPT ![p] = IdleFetch]
  /\ UNCHANGED <<feeds, reports, maxSetting, settings, nextArticleId, nextWsId, nextReportId, add, rep, exp, all, reset, snapshotOf>>

\* PATCH /settings {maxArticlesPerFeed}
PatchSettings(value) ==
  /\ maxSetting' = {value}
  /\ last' = [op |-> "patchSettings", status |-> 200]
  /\ UNCHANGED <<feeds, articles, workspace_items, reports, report_items, settings,
                 nextArticleId, nextWsId, nextReportId, fetch, add, rep, exp, all, reset, snapshotOf>>

\* PATCH /settings with any fields: one upsert per supplied key, in one
\* DB.batch.  keys are the supplied keys other than maxArticlesPerFeed
PatchSettingsBatch(keys, maxArticlesPerFeed) ==
  /\ IF keys = {} /\ maxArticlesPerFeed = 0
       THEN /\ last' = [op |-> "patchSettings", status |-> 400]
            /\ UNCHANGED <<settings, maxSetting>>
       ELSE /\ settings' = {r \in settings : r.key \notin keys} \cup
                             {[key |-> k, value |-> "custom"] : k \in keys}
            /\ maxSetting' = IF maxArticlesPerFeed # 0 THEN {maxArticlesPerFeed}
                                                      ELSE maxSetting
            /\ last' = [op |-> "patchSettings", status |-> 200]
  /\ UNCHANGED <<feeds, articles, workspace_items, reports, report_items,
                 nextArticleId, nextWsId, nextReportId, fetch, add, rep, exp, all, reset,
                 snapshotOf>>

\* an answer of POST /settings/reset; before is the settings table as the
\* request found it
ResetAnswer(status, before) == [op |-> "resetSettings", status |-> status, before |-> before]

\* POST /settings/reset: 'DELETE FROM settings'
ResetDelete ==
  /\ reset.pc = "idle"
  /\ \/ /\ settings' = {}
        /\ maxSetting' = {}
        /\ reset' = [pc |-> "insert", before |-> <<settings, maxSetting>>]
        /\ last' = NoOp
     \/ /\ last' = ResetAnswer(500, <<settings, maxSetting>>)
        /\ UNCHANGED <<settings, maxSetting, reset>>
  /\ UNCHANGED <<feeds, articles, workspace_items, reports, report_items,
                 nextArticleId, nextWsId, nextReportId, fetch, add, rep, exp, all,
                 snapshotOf>>

\* the six INSERTs of the batch: key TEXT PRIMARY KEY
ResetInsertAccepted(rows, maxRows) ==
  /\ \A r \in rows : r.key \notin DefaultKeys
  /\ maxRows = {}

\* POST /settings/reset: DB.batch(insertStatements), all of it or nothing
ResetInsert ==
  /\ reset.pc = "insert"
  /\ \/ /\ ResetInsertAccepted(settings, maxSetting)
        /\ settings' = {r \in settings : r.key \notin DefaultKeys} \cup DefaultSettings
        /\ maxSetting' = {DefaultMaxArticles}
        /\ last' = ResetAnswer(200, reset.before)
     \/ /\ last' = ResetAnswer(500, reset.before)
        /\ UNCHANGED <<settings, maxSetting>>
  /\ reset' = IdleReset
  /\ UNCHANGED <<feeds, articles, workspace_items, reports, report_items,
                 nextArticleId, nextWsId, nextReportId, fetch, add, rep, exp, all,
                 snapshotOf>>

\* PATCH /feeds/:id {isActive} -> db.updateRSSFeed(id, {isActive})
PatchFeed(id, isActive) ==
  /\ feeds' = {IF f.id = id THEN [f EXCEPT !.isActive = isActive] ELSE f : f \in feeds}
  /\ last' = [op |-> "patchFeed", id |-> id,
              status |-> IF id \in Ids(feeds) THEN 200 ELSE 404]
  /\ UNCHANGED <<articles, workspace_items, reports, report_items, maxSetting, settings,
                 nextArticleId, nextWsId, nextReportId, fetch, add, rep, exp, all, reset, snapshotOf>>

\* DELETE /feeds/:id -> db.deleteRSSFeed(id)
DeleteFeed(id) ==
  LET fds2 == {f \in feeds : f.id # id} IN
  /\ feeds' = fds2
  /\ DeleteArticlesTo(CascadeArticles(articles, fds2))
  /\ last' = [op |-> "deleteFeed", id |-> id,
              status |-> IF id \in Ids(feeds) THEN 200 ELSE 404]
  /\ UNCHANGED <<reports, maxSetting, settings, nextArticleId, nextWsId, nextReportId, fetch, add, rep, exp, all, reset, snapshotOf>>

\* ================================================================ reports
StatusInputs == {Undefined, "draft", "published", "archived"}

\* (mutant) the reports table without its CHECK on status
StatusAccepted_Any(status) == TRUE

\* status TEXT NOT NULL DEFAULT 'draft' CHECK (status IN ('draft', 'published'))
StatusAccepted(status) == status \in {"draft", "published"}

\* db.getWorkspaceItems(): 'SELECT * FROM workspace_items ORDER BY
\* order_index ASC'; rows with equal order_index come in any order
SortedItems(wsRows) ==
  LET n == Cardinality(wsRows) IN
  {s \in [1..n -> Ids(wsRows)] :
     /\ \A i, j \in 1..n : i # j => s[i] # s[j]
     /\ \A i, j \in 1..n : i < j =>
          \A wi, wj \in wsRows : (wi.id = s[i] /\ wj.id = s[j]) => wi.order <= wj.order}

\* (mutant) order_index bound to the 1-based position
ReportItemRow_OneBased(reportId, itemId, index) ==
  [reportId |-> reportId, workspaceItemId |-> itemId, orderIndex |-> index + 1]

\* workspaceItems.map((item, index) => INSERT INTO report_items ... bound to
\* (reportId, item.id, index))
ReportItemRow(reportId, itemId, index) ==
  [reportId |-> reportId, workspaceItemId |-> itemId, orderIndex |-> index]

SnapshotRows(reportId, items) ==
  {ReportItemRow(reportId, items[k], k - 1) : k \in 1..Len(items)}

\* DB.batch(reportItemInserts): every row needs its report and its workspace
\* item (foreign keys) and a new (report_id, workspace_item_id) pair
BatchAccepted(rows, reps, wsRows, ris) ==
  \A r \in rows :
    /\ r.reportId \in Ids(reps)
    /\ r.workspaceItemId \in Ids(wsRows)
    /\ \A ri \in ris : ~(ri.reportId = r.reportId /\ ri.workspaceItemId = r.workspaceItemId)

\* an answer of POST /reports: id is the report's, items the workspace rows read
ReportAnswer(status, copyWorkspace, id, items) ==
  [op |-> "createReport", status |-> status, copyWorkspace |-> copyWorkspace,
   id |-> id, items |-> items]

\* POST /reports: validation of the body and the INSERT INTO reports
ReportCreate(hasTitle, status, copyWorkspace) ==
  /\ rep.pc = "idle"
  /\ nextReportId <= MaxReportId
  /\ LET st == IF status = Undefined THEN "draft" ELSE status IN
     IF ~hasTitle
       THEN /\ last' = ReportAnswer(400, copyWorkspace, 0, <<>>)
            /\ UNCHANGED <<reports, nextReportId, rep>>
       ELSE IF ~StatusAccepted(st)
         THEN /\ last' = ReportAnswer(500, copyWorkspace, 0, <<>>)
              /\ UNCHANGED <<reports, nextReportId, rep>>
         ELSE /\ reports' = reports \cup {[id |-> nextReportId, status |-> st]}
              /\ nextReportId' = nextReportId + 1
              /\ IF copyWorkspace
                   THEN /\ rep' = [pc |-> "read", id |-> nextReportId]
                        /\ last' = NoOp
                   ELSE /\ last' = ReportAnswer(201, FALSE, nextReportId, <<>>)
                        /\ UNCHANGED rep
  /\ UNCHANGED <<feeds, articles, workspace_items, report_items, maxSetting, settings,
                 nextArticleId, nextWsId, fetch, add, exp, all, reset, snapshotOf>>

\* copyWorkspace: db.getWorkspaceItems()
ReportRead ==
  /\ rep.pc = "read"
  /\ \E items \in SortedItems(workspace_items) :
       IF Len(items) > 0
         THEN /\ rep' = [pc |-> "batch", id |-> rep.id, items |-> items]
              /\ last' = NoOp
         ELSE /\ rep' = IdleRep
              /\ last' = ReportAnswer(201, TRUE, rep.id, items)
  /\ UNCHANGED <<dbVars, nextArticleId, nextWsId, nextReportId, fetch, add, exp, all, reset,
                 snapshotOf>>

\* copyWorkspace: DB.batch(reportItemInserts)
ReportBatch ==
  /\ rep.pc = "batch"
  /\ LET rows == SnapshotRows(rep.id, rep.items) IN
     IF BatchAccepted(rows, reports, workspace_items, report_items)
       THEN /\ report_items' = report_items \cup rows
            /\ snapshotOf' = [snapshotOf EXCEPT ![rep.id] = rep.items]
            /\ last' = ReportAnswer(201, TRUE, rep.id, rep.items)
       ELSE /\ last' = ReportAnswer(500, TRUE, rep.id, rep.items)
            /\ UNCHANGED <<report_items, snapshotOf>>
  /\ rep' = IdleRep
  /\ UNCHANGED <<feeds, articles, workspace_items, reports, maxSetting, settings,
                 nextArticleId, nextWsId, nextReportId, fetch, add, exp, all, reset>>

\* DELETE /reports/:id (report_items.report_id ON DELETE CASCADE)
DeleteReport(id) ==
  /\ reports' = {r \in reports : r.id # id}
  /\ report_items' = {ri \in report_items : ri.reportId # id}
  /\ snapshotOf' = [snapshotOf EXCEPT ![id] = <<>>]
  /\ last' = [op |-> "deleteReport", id |-> id,
              status |-> IF id \in Ids(reports) THEN 200 ELSE 404]
  /\ UNCHANGED <<feeds, articles, workspace_items, maxSetting, settings,
                 nextArticleId, nextWsId, nextReportId, fetch, add, rep, exp, all, reset>>

StatusOf(reps, id) == (CHOOSE r \in reps : r.id = id).status

\* PATCH /reports/:id: 'UPDATE reports SET <supplied columns> WHERE id = ?'.
\* otherFields: a title or a description is supplied.  The CHECK on status is
\* evaluated for the row the WHERE clause finds; was is the status the row
\* had.
PatchReport(id, otherFields, status) ==
  /\ IF status = Undefined /\ ~otherFields
       THEN /\ last' = [op |-> "patchReport", status |-> 400, id |-> id,
                        newStatus |-> status, was |-> NULL]
            /\ UNCHANGED reports
       ELSE IF id \notin Ids(reports)
         THEN /\ last' = [op |-> "patchReport", status |-> 404, id |-> id,
                          newStatus |-> status, was |-> NULL]
              /\ UNCHANGED reports
         ELSE IF status # Undefined /\ ~StatusAccepted(status)
           THEN /\ last' = [op |-> "patchReport", status |-> 500, id |-> id,
                            newStatus |-> status, was |-> StatusOf(reports, id)]
                /\ UNCHANGED reports
           ELSE /\ reports' = {IF r.id = id /\ status # Undefined
                                 THEN [r EXCEPT !.status = status] ELSE r
                                 : r \in reports}
                /\ last' = [op |-> "patchReport", status |-> 200, id |-> id,
                            newStatus |-> status, was |-> StatusOf(reports, id)]
  /\ UNCHANGED <<feeds, articles, workspace_items, report_items, maxSetting, settings,
                 nextArticleId, nextWsId, nextReportId, fetch, add, rep, exp, all, reset,
                 snapshotOf>>

\* ================================================================= export
\* articles.content of a row: what extractContent made of the entry with the
\* row's url; no statement changes it after the insert
ArticleContent(a) == IF a.url = 1 THEN "c1" ELSE "c2"

\* the format parameter of a request: absent, empty, or a string
FormatInputs == {Undefined, "", "json", "JSON", "html", "csv", "pdf"}

\* a || b on strings and null
OrElse(a, b) == IF a \in {NULL, Undefined, ""} THEN b ELSE a

\* (mutant) the strings are compared as they are given
ToLowerCase_Identity(str) == str

\* format.toLowerCase(), on the strings of FormatInputs
ToLowerCase(str) == IF str = "JSON" THEN "json" ELSE str

\* the cases of 'switch (format.toLowerCase())'
SupportedFormats == {"json", "html", "csv"}

\* FROM report_items ri JOIN workspace_items wi ... JOIN articles a ...
\* WHERE ri.report_id = ?
JoinRows(reportId) ==
  {ri \in report_items :
     /\ ri.reportId = reportId
     /\ \E w \in workspace_items :
          w.id = ri.workspaceItemId /\ \E a \in articles : a.id = w.articleId}

WsRowOf(ri) == CHOOSE w \in workspace_items : w.id = ri.workspaceItemId

ArticleOf(w) == CHOOSE a \in articles : a.id = w.articleId

\* (mutant) ORDER BY wi.order_index ASC: the current order of the workspace
SortedJoin_ByWorkspaceOrder(reportId) ==
  LET rows == JoinRows(reportId)
      n == Cardinality(rows)
  IN {s \in [1..n -> rows] :
        /\ \A i, j \in 1..n : i # j => s[i] # s[j]
        /\ \A i, j \in 1..n : i < j => WsRowOf(s[i]).order <= WsRowOf(s[j]).order}

\* (mutant) ORDER BY ri.order_index DESC
SortedJoin_Descending(reportId) ==
  LET rows == JoinRows(reportId)
      n == Cardinality(rows)
  IN {s \in [1..n -> rows] :
        /\ \A i, j \in 1..n : i # j => s[i] # s[j]
        /\ \A i, j \in 1..n : i < j => s[i].orderIndex >= s[j].orderIndex}

\* ORDER BY ri.order_index ASC: rows with equal order_index come in any order
SortedJoin(reportId) ==
  LET rows == JoinRows(reportId)
      n == Cardinality(rows)
  IN {s \in [1..n -> rows] :
        /\ \A i, j \in 1..n : i # j => s[i] # s[j]
        /\ \A i, j \in 1..n : i < j => s[i].orderIndex <= s[j].orderIndex}

\* one element of exportData.items
ExportItem(ri, index) ==
  LET w == WsRowOf(ri)
      a == ArticleOf(w)
  IN [order |-> index, url |-> a.url,
      content |-> OrElse(w.customContent, ArticleContent(a)),
      analysis |-> w.customAnalysis, isEdited |-> w.isEdited]

ExportItems(rows) == [k \in 1..Len(rows) |-> ExportItem(rows[k], k)]

\* an answer of GET /reports/:id/export: kind is the format of the body
ExportAnswer(status, id, format, kind, items) ==
  [op |-> "exportReport", status |-> status, id |-> id, format |-> format,
   kind |-> kind, items |-> items]

\* GET /reports/:id/export: 'SELECT * FROM reports WHERE id = ?'
ExportStart(id, format) ==
  /\ exp.pc = "idle"
  /\ IF id \in Ids(reports)
       THEN /\ exp' = [pc |-> "items", id |-> id, format |-> format]
            /\ last' = NoOp
       ELSE /\ last' = ExportAnswer(404, id, format, "error", <<>>)
            /\ UNCHANGED exp
  /\ UNCHANGED <<dbVars, nextArticleId, nextWsId, nextReportId, fetch, add, rep, all, reset,
                 snapshotOf>>

\* GET /reports/:id/export: the join, exportData and the switch on the format
ExportRespond ==
  /\ exp.pc = "items"
  /\ \E rows \in SortedJoin(exp.id) :
       LET format == OrElse(exp.format, "json")
           kind == ToLowerCase(format)
       IN IF kind \in SupportedFormats
            THEN last' = ExportAnswer(200, exp.id, exp.format, kind, ExportItems(rows))
            ELSE last' = ExportAnswer(400, exp.id, exp.format, "error", <<>>)
  /\ exp' = IdleExp
  /\ UNCHANGED <<dbVars, nextArticleId, nextWsId, nextReportId, fetch, add, rep, all, reset,
                 snapshotOf>>

\* ========================================================= specifications
\* the store after one fetch of each feed: an article per feed
InitCurated ==
  /\ feeds = {[id |-> f, isActive |-> TRUE, lastFetched |-> NULL] : f \in FeedIds}
  /\ articles = {[id |-> f, feedId |-> f, url |-> f, publishedAt |-> PubDateOf(f)]
                   : f \in FeedIds}
  /\ workspace_items = {}
  /\ reports = {}
  /\ report_items = {}
  /\ maxSetting = {MaxSetting}
  /\ settings = DefaultSettings
  /\ nextArticleId = MaxFeed + 1
  /\ nextWsId = 1
  /\ nextReportId = 1
  /\ fetch = [p \in FetchProcs |-> IdleFetch]
  /\ add = [p \in AddProcs |-> IdleAdd]
  /\ rep = IdleRep
  /\ exp = IdleExp
  /\ all = IdleAll
  /\ reset = IdleReset
  /\ snapshotOf = NoSnapshots
  /\ last = NoOp

FetchSteps(p) ==
  FetchParse(p) \/ FetchCheck(p) \/ FetchInsert(p) \/ FetchUpdate(p) \/ FetchCleanup(p)

AddSteps(p) == AddCheck(p) \/ AddMax(p) \/ AddInsert(p)

ReportSteps == ReportRead \/ ReportBatch

\* articleId of a request body: missing, an article's id or no article's id
ArticleIdInputs == 0..(MaxFeed + 1)

AddRequest(p) == \E a \in ArticleIdInputs : AddStart(p, a)

UpdateRequest ==
  \E id \in WsIds, cc \in UpdateInputs, ca \in UpdateInputs :
    UpdateWorkspaceItem(id, cc, ca)

RemoveRequest == \E id \in WsIds : RemoveFromWorkspace(id)

ReorderRequest ==
  \/ \E itemIds \in ReorderLists : Reorder(TRUE, itemIds)
  \/ Reorder(FALSE, <<>>)

\* customContent and customAnalysis of a request body: absent, null, the
\* empty string or a text
EditInputs == UpdateInputs \cup {""}

EditRequest ==
  \E id \in WsIds, cc \in EditInputs, ca \in EditInputs :
    UpdateWorkspaceItem(id, cc, ca)

ExportRequest ==
  \E id \in 1..MaxReportId, format \in FormatInputs : ExportStart(id, format)

ExportJsonRequest == \E id \in 1..MaxReportId : ExportStart(id, "json")

ReportRequest ==
  \E t \in BOOLEAN, st \in StatusInputs, cw \in BOOLEAN : ReportCreate(t, st, cw)

\* ---- the curator's workspace, requests served one at a time
NextCurate ==
  \/ Quiet /\ AddRequest(1)
  \/ AddSteps(1)
  \/ Quiet /\ UpdateRequest
  \/ Quiet /\ RemoveRequest
  \/ Quiet /\ ClearWorkspace
  \/ Quiet /\ ReorderRequest

SpecCurate == InitCurated /\ [][NextCurate]_vars

\* ---- composing a report: add, edit, reorder, snapshot, one request at a time
NextCompose ==
  \/ Quiet /\ AddRequest(1)
  \/ AddSteps(1)
  \/ Quiet /\ UpdateRequest
  \/ Quiet /\ ReorderRequest
  \/ Quiet /\ ReportRequest
  \/ ReportSteps

SpecCompose == InitCurated /\ [][NextCompose]_vars

\* ---- add requests interleaved with each other and with other requests
NextAddRace ==
  \/ \E p \in AddProcs : AddRequest(p) \/ AddSteps(p)
  \/ RemoveRequest
  \/ ReorderRequest
  \/ \E f \in FeedIds : DeleteFeed(f)

SpecAddRace == InitCurated /\ [][NextAddRace]_vars

\* ---- report creation interleaved with workspace requests
NextReport ==
  \/ Quiet /\ AddRequest(1)
  \/ AddSteps(1)
  \/ RemoveRequest
  \/ ReorderRequest
  \/ ReportRequest
  \/ ReportSteps
  \/ \E id \in 1..MaxReportId : DeleteReport(id)

SpecReport == InitCurated /\ [][NextReport]_vars

\* ids of a request for a report: every id ever given and one never given
ReportIdInputs == 1..(MaxReportId + 1)

PatchRequest ==
  \E id \in ReportIdInputs, f \in BOOLEAN, st \in StatusInputs : PatchReport(id, f, st)

\* ---- reports created, patched and deleted while the workspace fills
NextStatus ==
  \/ Quiet /\ AddRequest(1)
  \/ AddSteps(1)
  \/ ReportRequest
  \/ ReportSteps
  \/ PatchRequest
  \/ \E id \in 1..MaxReportId : DeleteReport(id)

SpecStatus == InitCurated /\ [][NextStatus]_vars

\* the document parseURL returned, as the log of that step
ParseLog(doc) == [op |-> "parseURL", doc |-> doc]

\* ---- one fetchFeed call at a time, the document on record, while the
\* setting changes
NextCap ==
  \/ \E f \in FeedIds : FetchStart(1, f)
  \/ FetchParseThrows(1)
  \/ \E doc \in Documents : FetchParseDoc(1, doc, ParseLog(doc))
  \/ FetchCheck(1)
  \/ FetchInsert(1)
  \/ FetchUpdate(1)
  \/ FetchCleanup(1)
  \/ \E v \in 1..MaxSetting : PatchSettings(v)

SpecCap == Init /\ [][NextCap]_vars

\* keys of the PATCH /settings requests: a default key and another one
PatchKeys == {"refresh_interval", "ai_api_key"}

PatchSettingsRequest ==
  \E keys \in SUBSET PatchKeys, v \in 0..MaxSetting : PatchSettingsBatch(keys, v)

\* ---- settings reset and patched, one request at a time
NextReset ==
  \/ reset.pc = "idle" /\ PatchSettingsRequest
  \/ ResetDelete
  \/ ResetInsert

SpecReset == Init /\ [][NextReset]_vars

\* ---- reports exported after the workspace went on changing, one request
\* at a time
NextExport ==
  \/ Quiet /\ AddRequest(1)
  \/ AddSteps(1)
  \/ Quiet /\ RemoveRequest
  \/ Quiet /\ ReorderRequest
  \/ Quiet /\ ReportRequest
  \/ ReportSteps
  \/ Quiet /\ ExportJsonRequest
  \/ ExportRespond
  \/ Quiet /\ \E id \in 1..MaxReportId : DeleteReport(id)

SpecExport == InitCurated /\ [][NextExport]_vars

\* ---- the store once a report has been created from a two-item workspace:
\* item 1 of article 1 and item 2 of article 2, reordered to (2, 1), and the
\* report's snapshot of it
InitFrozen ==
  /\ feeds = {[id |-> f, isActive |-> TRUE, lastFetched |-> NULL] : f \in FeedIds}
  /\ articles = {[id |-> f, feedId |-> f, url |-> f, publishedAt |-> PubDateOf(f)]
                   : f \in 1..2}
  /\ workspace_items = {NewItem(2, 2, 0), NewItem(1, 1, 1)}
  /\ reports = {[id |-> 1, status |-> "draft"]}
  /\ report_items = SnapshotRows(1, <<2, 1>>)
  /\ maxSetting = {MaxSetting}
  /\ settings = DefaultSettings
  /\ nextArticleId = 3
  /\ nextWsId = 3
  /\ nextReportId = 2
  /\ fetch = [p \in FetchProcs |-> IdleFetch]
  /\ add = [p \in AddProcs |-> IdleAdd]
  /\ rep = IdleRep
  /\ exp = IdleExp
  /\ all = IdleAll
  /\ reset = IdleReset
  /\ snapshotOf = [NoSnapshots EXCEPT ![1] = <<2, 1>>]
  /\ last = ReportAnswer(201, TRUE, 1, <<2, 1>>)

\* ---- every request that can follow the creation of a report, one at a time
NextFrozen ==
  \/ Quiet /\ AddRequest(1)
  \/ AddSteps(1)
  \/ Quiet /\ UpdateRequest
  \/ Quiet /\ RemoveRequest
  \/ Quiet /\ ClearWorkspace
  \/ Quiet /\ ReorderRequest
  \/ Quiet /\ \E id \in 1..MaxReportId : DeleteReport(id)
  \/ Quiet /\ \E f \in FeedIds : DeleteFeed(f)

SpecFrozen == InitFrozen /\ [][NextFrozen]_vars

\* ---- the content and the format of exports, one request at a time
NextFormat ==
  \/ Quiet /\ AddRequest(1)
  \/ AddSteps(1)
  \/ Quiet /\ EditRequest
  \/ Quiet /\ ReportRequest
  \/ ReportSteps
  \/ Quiet /\ ExportRequest
  \/ ExportRespond

SpecFormat == InitCurated /\ [][NextFormat]_vars

\* ---- fetches interleaved with each other and with settings and feed requests
NextFetch ==
  \/ \E p \in FetchProcs : (\E f \in FeedIds : FetchStart(p, f)) \/ FetchSteps(p)
  \/ \E v \in 1..MaxSetting : PatchSettings(v)
  \/ \E f \in FeedIds : DeleteFeed(f)

SpecFetch == Init /\ [][NextFetch]_vars

\* ---- manual refreshes of feeds that are switched off and on and deleted
NextRefresh ==
  \/ \E f \in FeedIds : FetchStart(1, f)
  \/ FetchSteps(1)
  \/ \E f \in FeedIds, b \in BOOLEAN : PatchFeed(f, b)
  \/ \E f \in FeedIds : DeleteFeed(f)

SpecRefresh == Init /\ [][NextRefresh]_vars

\* ---- the whole store, requests and fetches served one at a time
Next ==
  \/ Quiet /\ \E f \in FeedIds : FetchStart(1, f)
  \/ FetchSteps(1)
  \/ Quiet /\ AddRequest(1)
  \/ AddSteps(1)
  \/ Quiet /\ RemoveRequest
  \/ Quiet /\ ClearWorkspace
  \/ Quiet /\ ReportRequest
  \/ ReportSteps
  \/ Quiet /\ \E id \in 1..MaxReportId : DeleteReport(id)
  \/ Quiet /\ \E f \in FeedIds : DeleteFeed(f)

Spec == Init /\ [][Next]_vars

\* ================================================================= claims
ArticlesOf(feedId) == {a \in articles : a.feedId = feedId}

\* the entry a fetchFeed call is at has a link and a title
AtValidEntry(p) ==
  /\ fetch[p].pc \in {"loop", "insert"}
  /\ fetch[p].items # <<>>
  /\ Head(fetch[p].items).link # 0
  /\ Head(fetch[p].items).title

\* the url of the entry a fetchFeed call is at is the url of a stored article
AtStoredUrl(p) ==
  /\ AtValidEntry(p)
  /\ \E a \in articles : a.url = Head(fetch[p].items).link

UniqueUrls ==
  \A a, b \in articles : a.url = b.url => a = b

\* C1: no two Article rows share a url, and a fetchFeed call that is at an entry
\* whose url is stored (under any feed, by this call or by a concurrent one, at
\* the existence query or at the insert) passes it over: the step leaves the
\* articles table as it is, does not count the entry and moves to the next one.
C1_UrlUniqueAndSkipped ==
  /\ []UniqueUrls
  /\ [][\A p \in FetchProcs :
          (AtStoredUrl(p) /\ fetch'[p] # fetch[p]) =>
            /\ articles' = articles
            /\ fetch'[p].pc = "loop"
            /\ fetch'[p].items = Tail(fetch[p].items)
            /\ fetch'[p].articlesAdded = fetch[p].articlesAdded]_vars

\* C1 witness: a call has passed the existence query for a url that a
\* concurrent call has stored since, under the other feed
C1_Witness ==
  \E p \in FetchProcs :
    /\ fetch[p].pc = "insert"
    /\ \E a \in articles :
         a.url = Head(fetch[p].items).link /\ a.feedId # fetch[p].feedId

ItemsOf(articleId) == {w \in workspace_items : w.articleId = articleId}

OnePerArticle ==
  \A v, w \in workspace_items : v.articleId = w.articleId => v = w

\* C3: with add requests served one at a time there is at most one
\* WorkspaceItem per articleId in every state, and an add request whose
\* article has a WorkspaceItem at the existence check is answered 409 and
\* leaves workspace_items unchanged.
C3_SerialAddConflict ==
  /\ []OnePerArticle
  /\ [][(add[1].pc = "check" /\ add'[1] # add[1] /\ ItemsOf(add[1].articleId) # {}) =>
          /\ last' = [op |-> "addToWorkspace", status |-> 409,
                      articleId |-> add[1].articleId]
          /\ workspace_items' = workspace_items]_vars

\* C3 witness: an add was answered 409 for an article that has its item
C3_Witness ==
  /\ last.op = "addToWorkspace" /\ last.status = 409
  /\ Cardinality(ItemsOf(last.articleId)) = 1

\* C4: the insert of an add request that passed the existence check is
\* accepted although a WorkspaceItem of the same article exists by then: the
\* request is answered 201 and the article has one more WorkspaceItem.
C4_SecondInsertAccepted ==
  [][\A p \in AddProcs :
       (/\ add[p].pc = "insert" /\ add'[p] # add[p]
        /\ add[p].articleId \in Ids(articles)
        /\ ItemsOf(add[p].articleId) # {}) =>
         /\ last'.op = "addToWorkspace" /\ last'.status = 201
         /\ Cardinality({w \in workspace_items' : w.articleId = add[p].articleId})
              = Cardinality(ItemsOf(add[p].articleId)) + 1]_vars

\* C4 witness: two WorkspaceItems reference one article after a 201 for it
C4_Witness ==
  /\ last.op = "addToWorkspace" /\ last.status = 201
  /\ Cardinality(ItemsOf(last.articleId)) = 2

\* C5: with requests served one at a time, an add answered 201 inserts exactly
\* one row, whose order is 0 when the workspace was empty and otherwise the
\* greatest order of the rows present plus 1; no other row changes.
C5_AppendAtMaxPlusOne ==
  [][(last'.op = "addToWorkspace" /\ last'.status = 201) =>
       LET expected == IF workspace_items = {} THEN 0
                       ELSE Max({w.order : w \in workspace_items}) + 1
       IN /\ last'.id \notin Ids(workspace_items)
          /\ workspace_items' = workspace_items \cup
               {[id |-> last'.id, articleId |-> last'.articleId, order |-> expected,
                 customContent |-> NULL, customAnalysis |-> NULL,
                 isEdited |-> FALSE]}]_vars

\* C5 witness: after adds with orders 0 and 1 and the removal of the first
\* item, the third add got order 2
C5_Witness ==
  /\ last.op = "addToWorkspace" /\ last.status = 201 /\ last.id = 3
  /\ {<<w.id, w.order>> : w \in workspace_items} = {<<2, 1>>, <<3, 2>>}

Item(id) == CHOOSE w \in workspace_items : w.id = id

Positions(itemIds, id) == {k \in 1..Len(itemIds) : itemIds[k] = id}

ReorderSucceeded == last.op = "reorder" /\ last.status = 200

\* C6 as stated: after a successful reorder every position of the list that
\* names an existing item gives that item's order (0-based), for every list.
C6_OrderIsEveryIndex ==
  ReorderSucceeded =>
    \A k \in 1..Len(last.itemIds) :
      last.itemIds[k] \in Ids(workspace_items) => Item(last.itemIds[k]).order = k - 1

\* C6 amended: after a successful reorder every id of the list that names an
\* existing item has order equal to the 0-based index of its last occurrence
\* in the list (its only index when the id is not repeated).
C6_OrderIsLastIndex ==
  ReorderSucceeded =>
    \A w \in workspace_items :
      Positions(last.itemIds, w.id) # {} =>
        w.order = Max(Positions(last.itemIds, w.id)) - 1

\* C6 witness: reorder([a, a]) on the two-item workspace {a, b}: a is at
\* index 0 and at index 1 of the list and has order 1
C6_Witness ==
  /\ ReorderSucceeded
  /\ \E a, b \in workspace_items :
       /\ a.id # b.id /\ workspace_items = {a, b}
       /\ last.itemIds = <<a.id, a.id>>
       /\ a.order = 1 /\ b.order = 0

C8_UpdateFrame ==
  [][last'.op = "updateWorkspaceItem" =>
       LET id == last'.id
           cc == last'.customContent
           ca == last'.customAnalysis
       IN IF id \notin Ids(workspace_items)
            THEN last'.status = 404 /\ workspace_items' = workspace_items
            ELSE /\ last'.status = 200
                 /\ Ids(workspace_items') = Ids(workspace_items)
                 /\ \A w \in workspace_items : w.id # id => w \in workspace_items'
                 /\ \E v \in workspace_items' :
                      /\ v.id = id
                      /\ v.order = Item(id).order
                      /\ v.articleId = Item(id).articleId
                      /\ v.customContent =
                           (IF cc = Undefined THEN Item(id).customContent ELSE cc)
                      /\ v.customAnalysis =
                           (IF ca = Undefined THEN Item(id).customAnalysis ELSE ca)
                      /\ v.isEdited =
                           (IF cc = Undefined /\ ca = Undefined
                              THEN Item(id).isEdited ELSE TRUE)]_vars

\* C8 witness: an update with customAnalysis alone on an item whose
\* customContent was set before
C8_Witness ==
  /\ last.op = "updateWorkspaceItem" /\ last.status = 200
  /\ last.customContent = Undefined /\ last.customAnalysis = NULL
  /\ Item(last.id).customContent = "x"
  /\ Item(last.id).customAnalysis = NULL
  /\ Item(last.id).isEdited

RefIntegrity ==
  /\ \A w \in workspace_items : \E a \in articles : a.id = w.articleId
  /\ \A ri \in report_items :
       /\ \E r \in reports : r.id = ri.reportId
       /\ \E w \in workspace_items : w.id = ri.workspaceItemId

\* C9: in every reachable state each WorkspaceItem references an existing
\* Article and each ReportItem an existing Report and an existing
\* WorkspaceItem; so the step that deletes an Article (feed deletion,
\* retention trim) or a WorkspaceItem (removal, clear) also removes the rows
\* that reference it.
C9_ReferentialIntegrity == RefIntegrity

\* C9 witness: a fetch whose retention trim deleted the article of a
\* workspace item that a report snapshot linked, the report still stored
C9_Witness ==
  /\ last.op = "fetchFeed" /\ last.success /\ last.trimmed
  /\ last.cascaded.items # {} /\ last.cascaded.links > 0
  /\ reports # {}
  /\ articles # {}

\* the sequence is an enumeration without repetition of the ids of the rows,
\* ascending by order
IsWorkspaceInOrder(items, wsRows) ==
  /\ Len(items) = Cardinality(wsRows)
  /\ {items[k] : k \in 1..Len(items)} = Ids(wsRows)
  /\ \A i, j \in 1..Len(items) : i < j =>
       \A wi, wj \in wsRows : (wi.id = items[i] /\ wj.id = items[j]) => wi.order <= wj.order

LinksOf(ris, reportId) == {ri \in ris : ri.reportId = reportId}

\* C10: createReport with copyWorkspace reads every WorkspaceItem of that
\* moment in ascending workspace order, and when it answers 201 the report's
\* ReportItems are exactly one per item read, with orderIndex 0..n-1 in the
\* order read; without copyWorkspace the report is created with no
\* ReportItems; a missing title is answered 400 and creates nothing.
C10_SnapshotWorkspace ==
  [][/\ (rep.pc = "read" /\ rep'.pc = "batch") =>
          IsWorkspaceInOrder(rep'.items, workspace_items)
     /\ (last'.op = "createReport" /\ last'.status = 201) =>
          /\ \A ri \in report_items \cup report_items' :
               ri.reportId # last'.id => (ri \in report_items <=> ri \in report_items')
          /\ IF last'.copyWorkspace
               THEN /\ rep.pc = "read" => IsWorkspaceInOrder(last'.items, workspace_items)
                    /\ Cardinality(LinksOf(report_items', last'.id)) = Len(last'.items)
                    /\ \A k \in 1..Len(last'.items) :
                         \E ri \in LinksOf(report_items', last'.id) :
                           ri.workspaceItemId = last'.items[k] /\ ri.orderIndex = k - 1
               ELSE /\ last'.id \notin Ids(reports) /\ last'.id \in Ids(reports')
                    /\ LinksOf(report_items', last'.id) = {}
     /\ (last'.op = "createReport" /\ last'.status = 400) =>
          UNCHANGED <<reports, report_items, workspace_items, nextReportId>>]_vars

\* C10 witness: a report created from a reordered two-item workspace: the
\* item appended second is first in the workspace and has orderIndex 0
C10_Witness ==
  /\ last.op = "createReport" /\ last.status = 201 /\ last.copyWorkspace
  /\ Len(last.items) = 2 /\ last.items[1] > last.items[2]
  /\ Ids(workspace_items) = {last.items[1], last.items[2]}
  /\ Item(last.items[1]).order < Item(last.items[2]).order
  /\ LinksOf(report_items, last.id) =
       {[reportId |-> last.id, workspaceItemId |-> last.items[1], orderIndex |-> 0],
        [reportId |-> last.id, workspaceItemId |-> last.items[2], orderIndex |-> 1]}

\* a step in which call p of fetchFeed passes the guard on the feed
GoesOn(p) == fetch[p].pc = "idle" /\ fetch'[p].pc # "idle"

\* a step in which a call of fetchFeed returns at the guard on the feed: no
\* call changes its position and a result is returned
Refused == fetch' = fetch /\ last'.op = "fetchFeed"

\* C16: fetchFeed(feedId) for a feed that is not stored or is inactive
\* returns {success: false, articlesAdded: 0} with the guard's message, goes
\* on to no document retrieval, and changes no table (no article inserted or
\* deleted, lastFetched as it was); only a call for a stored active feed
\* goes on to retrieve the document.
C16_InactiveOrMissingFeed ==
  [][/\ \A p \in FetchProcs : GoesOn(p) =>
          /\ \E f \in feeds : f.id = fetch'[p].feedId /\ f.isActive
          /\ fetch'[p].pc = "parse"
     /\ Refused =>
          /\ ~\E f \in feeds : f.id = last'.feedId /\ f.isActive
          /\ ~last'.success /\ last'.articlesAdded = 0
          /\ last'.error = "not found or inactive"
          /\ UNCHANGED <<feeds, articles, workspace_items, report_items>>]_vars

\* C16 witness: a refresh of a feed that was fetched before, has an article
\* and is switched off
C16_Witness ==
  /\ last.op = "fetchFeed" /\ ~last.success /\ last.error = "not found or inactive"
  /\ \E f \in feeds :
       /\ f.id = last.feedId /\ ~f.isActive /\ f.lastFetched # NULL
       /\ \E a \in articles : a.feedId = f.id

\* call p of fetchFeed takes the step
Acts(p) == fetch'[p] # fetch[p]

\* the per-entry insert: a failed insert is skipped, the loop goes on with
\* the following entries, and articlesAdded counts the inserts that succeeded
InsertIsCounted ==
  \A p \in FetchProcs :
    /\ (fetch[p].pc = "insert" /\ Acts(p)) =>
         /\ fetch'[p].pc = "loop"
         /\ fetch'[p].items = Tail(fetch[p].items)
         /\ fetch'[p].articlesAdded =
              fetch[p].articlesAdded + Cardinality(articles' \ articles)
         /\ last'.op = "createArticle"
         /\ last'.inserted = (articles' # articles)
    /\ (fetch[p].pc \in {"loop", "cleanup"} /\ fetch'[p].pc \in {"loop", "cleanup"}) =>
         fetch'[p].articlesAdded = fetch[p].articlesAdded

\* a call returns success: true from the trim, after the update of
\* lastFetched, with the count of its successful inserts
SuccessAfterUpdateAndTrim ==
  /\ \A p \in FetchProcs :
       (fetch[p].pc = "loop" /\ fetch'[p].pc = "cleanup") =>
         \A f \in feeds' : f.id = fetch[p].feedId => f.lastFetched # NULL
  /\ (last'.op = "fetchFeed" /\ last'.success) =>
       \E p \in FetchProcs :
         /\ fetch[p].pc = "cleanup" /\ fetch'[p].pc = "idle"
         /\ last'.feedId = fetch[p].feedId
         /\ last'.articlesAdded = fetch[p].articlesAdded

\* a result with success: true leaves lastFetched set on the feed's row
SuccessHasLastFetched ==
  (last.op = "fetchFeed" /\ last.success) =>
    \A f \in feeds : f.id = last.feedId => f.lastFetched # NULL

\* C17 as stated: a result with success: false comes only from something
\* thrown at the level of the feed, with articlesAdded 0, and a result with
\* success: true leaves lastFetched set.
C17_FailsOnlyWhenThrown ==
  /\ SuccessHasLastFetched
  /\ (last.op = "fetchFeed" /\ ~last.success) =>
       (last.error = "thrown" /\ last.articlesAdded = 0)

\* C17 amended: a failed per-entry insert is skipped and the following
\* entries are processed; the call returns success: true after the update
\* of lastFetched and the trim, with articlesAdded the number of its
\* successful inserts; a result with success: false has articlesAdded 0 and
\* comes from the guard on the feed (not stored or inactive, nothing
\* thrown) or from something thrown at the level of the feed.
C17_EntryFailureIsolated ==
  /\ []SuccessHasLastFetched
  /\ []((last.op = "fetchFeed" /\ ~last.success) =>
          (last.error \in {"thrown", "not found or inactive"} /\ last.articlesAdded = 0))
  /\ [][InsertIsCounted /\ SuccessAfterUpdateAndTrim]_vars

\* C17 witness: the insert of an entry has just failed (its url was stored
\* by the other call after the existence check) and the call, of a stored
\* feed, is in its loop with a following entry to process
C17_Witness ==
  /\ last.op = "createArticle" /\ ~last.inserted
  /\ \E p \in FetchProcs :
       /\ fetch[p].pc = "loop" /\ fetch[p].feedId = last.feedId
       /\ fetch[p].items # <<>>
       /\ fetch[p].articlesAdded = 0
  /\ last.feedId \in Ids(feeds)
  /\ \E a \in articles : a.url = last.url /\ a.feedId # last.feedId

\* the url of the article of a stored workspace item
UrlOfItem(wsId) == ArticleOf(Item(wsId)).url

\* the ids of a snapshot whose workspace item is still stored
Surviving(items) == SelectSeq(items, LAMBDA i : i \in Ids(workspace_items))

ExportSucceeded == last.op = "exportReport" /\ last.status = 200

\* the snapshot recorded at a report's creation is the workspace of that
\* moment in ascending order
SnapshotIsWorkspace ==
  \A r \in 1..MaxReportId :
    (snapshotOf'[r] # snapshotOf[r] /\ snapshotOf'[r] # <<>>) =>
      IsWorkspaceInOrder(snapshotOf'[r], workspace_items)

ItemsOfReport(ris, reportId) == {ri \in ris : ri.reportId = reportId}

\* s2 lists some of the rows of s1, in the order s1 lists them
KeepsRelativeOrder(s1, s2) ==
  \A i, j \in 1..Len(s2) :
    i < j => \E a, b \in 1..Len(s1) : a < b /\ s1[a] = s2[i] /\ s1[b] = s2[j]

\* C12: once a report exists, no step adds a ReportItem to it or changes a
\* ReportItem's orderIndex, no step changes the relative order of its
\* items in an export, addToWorkspace, reorder and updateWorkspaceItem
\* leave its ReportItems as they are, and a ReportItem disappears only
\* when its WorkspaceItem (with or without its Article) or the report is
\* deleted.
C12_ReportIsFrozen ==
  [][\A r \in Ids(reports) :
       LET before == ItemsOfReport(report_items, r)
           after == ItemsOfReport(report_items', r)
       IN /\ after \subseteq before
          /\ \A ri \in before \ after :
               \/ ri.workspaceItemId \notin Ids(workspace_items')
               \/ r \notin Ids(reports')
          /\ (last'.op \in {"addToWorkspace", "reorder", "updateWorkspaceItem", "step"}
                => after = before)
          /\ \A s1 \in SortedJoin(r) : \A s2 \in SortedJoin(r)' :
               KeepsRelativeOrder(s1, s2)]_vars

\* C12 witness: the two items of the report were swapped back by a later
\* reorder and one of them was edited; the report still holds its two rows
C12_Witness ==
  /\ ReorderSucceeded
  /\ Ids(workspace_items) = {1, 2}
  /\ Item(1).order < Item(2).order
  /\ Item(1).isEdited
  /\ report_items = SnapshotRows(1, <<2, 1>>)

\* the stored workspace item whose article has the url of an exported item
ItemOfUrl(url) == CHOOSE w \in workspace_items : ArticleOf(w).url = url

\* C13 as stated: in an export each item's content is the workspace item's
\* current customContent whenever one is stored, the empty string
\* included, and the article's content only when none is stored; its
\* analysis is the current customAnalysis.
C13_ContentIsCustomElseArticle ==
  ExportSucceeded =>
    \A k \in 1..Len(last.items) :
      LET w == ItemOfUrl(last.items[k].url) IN
      /\ last.items[k].content =
           IF w.customContent # NULL THEN w.customContent
                                     ELSE ArticleContent(ArticleOf(w))
      /\ last.items[k].analysis = w.customAnalysis

\* the format a format parameter names when letter case is ignored
FormatNamed(format) ==
  CASE format \in {"json", "JSON"} -> "json"
    [] format = "html" -> "html"
    [] format = "csv" -> "csv"
    [] OTHER -> "none"

\* an export answers 404 exactly for a report that is not stored
MissingReportIs404 ==
  last.op = "exportReport" => (last.status = 404 <=> last.id \notin Ids(reports))

\* no step of an export request changes a stored row
ExportChangesNothing ==
  (exp' # exp \/ last'.op = "exportReport") => UNCHANGED dbVars

MaxTextLen == 2       \* characters in one text field of an exported item
DQ == "\""
Chars == {"a", DQ}
Texts == UNION {[1..n -> Chars] : n \in 0..MaxTextLen}

\* a NULL column of a row, as a text
NullText == <<NULL>>

\* value || '' of a text column
OrEmpty(text) == IF text \in {NullText, <<>>} THEN <<>> ELSE text

\* text.replace(/"/g, '""')
RECURSIVE ReplaceQuotes(_)
ReplaceQuotes(text) ==
  IF text = <<>> THEN <<>>
  ELSE (IF Head(text) = DQ THEN <<DQ, DQ>> ELSE <<Head(text)>>)
         \o ReplaceQuotes(Tail(text))

\* `"${text}"`
Quoted(text) == <<DQ>> \o text \o <<DQ>>

\* the items generateCSV is applied to: title and content are NOT NULL
\* columns, category and analysis may be NULL
CsvItems ==
  [order : {1}, title : Texts, category : Texts \cup {NullText},
   content : Texts, analysis : Texts \cup {NullText}]

headers == <<"Order", "Title", "Category", "Published Date", "URL", "Content", "Analysis">>

\* one element of rows: the cells of an item, before row.join(',')
CsvRow(item) ==
  << <<"1">>,
     Quoted(ReplaceQuotes(item.title)),
     Quoted(OrEmpty(item.category)),
     <<"date">>,
     <<"url">>,
     Quoted(ReplaceQuotes(item.content)),
     Quoted(OrEmpty(item.analysis)) >>

\* generateCSV(data): the header line and one line per item; a line is the
\* sequence of its cells, which join(',') separates by commas
generateCSV(items) == <<headers>> \o [k \in 1..Len(items) |-> CsvRow(items[k])]

\* a report with one item is about to be exported as CSV
InitCsv ==
  /\ feeds = {[id |-> f, isActive |-> TRUE, lastFetched |-> NULL] : f \in FeedIds}
  /\ articles = {}
  /\ workspace_items = {}
  /\ reports = {}
  /\ report_items = {}
  /\ maxSetting = {MaxSetting}
  /\ settings = DefaultSettings
  /\ nextArticleId = 1
  /\ nextWsId = 1
  /\ nextReportId = 1
  /\ fetch = [p \in FetchProcs |-> IdleFetch]
  /\ add = [p \in AddProcs |-> IdleAdd]
  /\ rep = IdleRep
  /\ exp = IdleExp
  /\ all = IdleAll
  /\ reset = IdleReset
  /\ snapshotOf = NoSnapshots
  /\ \E item \in CsvItems : last = [op |-> "exportData", items |-> <<item>>]

\* case 'csv': return new Response(generateCSV(exportData), ...)
GenerateCsv ==
  /\ last.op = "exportData"
  /\ last' = [op |-> "generateCSV", items |-> last.items, csv |-> generateCSV(last.items)]
  /\ UNCHANGED <<dbVars, nextArticleId, nextWsId, nextReportId, fetch, add, rep, exp,
                 all, reset, snapshotOf>>

NextCsv == GenerateCsv

SpecCsv == InitCsv /\ [][NextCsv]_vars

\* a text field as the CSV should hold it: in double quotes, each double
\* quote of the value doubled
CsvField(text) == Quoted(ReplaceQuotes(OrEmpty(text)))

\* C15 as stated: the header row is Order, Title, Category, Published
\* Date, URL, Content, Analysis, and every string field of an item (title,
\* category, content, analysis) is in double quotes with each double quote
\* of the value doubled.
C15_EveryStringFieldEscaped ==
  last.op = "generateCSV" =>
    /\ last.csv[1] = <<"Order", "Title", "Category", "Published Date", "URL",
                       "Content", "Analysis">>
    /\ Len(last.csv) = Len(last.items) + 1
    /\ \A k \in 1..Len(last.items) :
         LET item == last.items[k]
             row == last.csv[k + 1]
         IN /\ row[2] = CsvField(item.title)
            /\ row[3] = CsvField(item.category)
            /\ row[6] = CsvField(item.content)
            /\ row[7] = CsvField(item.analysis)

\* status values of a request that the reports table does not admit
OtherStatus == StatusInputs \ {Undefined, "draft", "published"}

\* a patch of a stored report to draft or to published is accepted and
\* stored, whatever the status was
PatchSetsEither ==
  \A id \in Ids(reports), f \in BOOLEAN, st \in {"draft", "published"} :
    PatchReport(id, f, st) => (last'.status = 200 /\ StatusOf(reports', id) = st)

\* a patch or a create with another status is answered with an error and
\* leaves the reports table as it is
OtherStatusRejected ==
  /\ \A id \in ReportIdInputs, f \in BOOLEAN, st \in OtherStatus :
       PatchReport(id, f, st) => (reports' = reports /\ last'.status \in {404, 500})
  /\ \A t \in BOOLEAN, cw \in BOOLEAN, st \in OtherStatus :
       ReportCreate(t, st, cw) => (reports' = reports /\ last'.status \in {400, 500})

\* C18: every stored report's status is draft or published; a patch to
\* either value is accepted whatever the current value, and a create or a
\* patch with another status value is rejected and changes no report.
C18_StatusDraftOrPublished ==
  /\ [](\A r \in reports : r.status \in {"draft", "published"})
  /\ [][PatchSetsEither /\ OtherStatusRejected]_vars

\* C18 witness: a published report was patched back to draft
C18_Witness ==
  /\ last.op = "patchReport" /\ last.status = 200
  /\ last.was = "published" /\ last.newStatus = "draft"
  /\ StatusOf(reports, last.id) = "draft"

\* ======================================================== fetchAllFeeds
MaxAllFeeds == 6      \* feeds stored when fetchAllFeeds is called
BATCH_SIZE == 5

AllFeedIds == 1..MaxAllFeeds

\* feeds switched off and on while the call runs: one of the first group
\* and one of the second
AllPatchIds == {1, MaxAllFeeds}

\* getRSSFeeds() ('ORDER BY name ASC') and feeds.filter(feed =>
\* feed.isActive): the ids of the active feeds; feed f bears the f-th name
ActiveFeeds(fds) ==
  LET S == {f.id : f \in {g \in fds : g.isActive}} IN
  [k \in 1..Cardinality(S) |-> CHOOSE x \in S : Cardinality({y \in S : y < x}) = k - 1]

\* (mutant) the group after position i, one feed longer
Batch_OneMore(activeFeeds, i) ==
  {activeFeeds[k] : k \in {j \in 1..Len(activeFeeds) : i < j /\ j <= i + BATCH_SIZE + 1}}

\* activeFeeds.slice(i, i + BATCH_SIZE)
Batch(activeFeeds, i) ==
  {activeFeeds[k] : k \in {j \in 1..Len(activeFeeds) : i < j /\ j <= i + BATCH_SIZE}}

\* (mutant) the loop goes on as soon as one promise has settled
AllSettled_Any(batch, inflight) == inflight # batch

\* await Promise.allSettled(...): every promise of the group has settled
AllSettled(batch, inflight) == inflight \cap batch = {}

\* six stored feeds, each active or not, nothing fetched yet
InitAll ==
  /\ \E active \in [AllFeedIds -> BOOLEAN] :
       feeds = {[id |-> f, isActive |-> active[f], lastFetched |-> NULL] : f \in AllFeedIds}
  /\ articles = {}
  /\ workspace_items = {}
  /\ reports = {}
  /\ report_items = {}
  /\ maxSetting = {MaxSetting}
  /\ settings = DefaultSettings
  /\ nextArticleId = 1
  /\ nextWsId = 1
  /\ nextReportId = 1
  /\ fetch = [p \in FetchProcs |-> IdleFetch]
  /\ add = [p \in AddProcs |-> IdleAdd]
  /\ rep = IdleRep
  /\ exp = IdleExp
  /\ all = IdleAll
  /\ reset = IdleReset
  /\ snapshotOf = NoSnapshots
  /\ last = NoOp

allUnchanged ==
  UNCHANGED <<articles, workspace_items, reports, report_items, maxSetting, settings,
              nextArticleId, nextWsId, nextReportId, fetch, add, rep, exp, reset,
              snapshotOf>>

\* fetchAllFeeds(): await this.db.getRSSFeeds() and the filter.  calls
\* counts the fetchFeed calls made for a feed, settled holds how each ended
AllStart ==
  /\ all.pc = "idle"
  /\ all' = [pc |-> "loop", activeFeeds |-> ActiveFeeds(feeds), i |-> 0,
             batch |-> {}, inflight |-> {},
             calls |-> [f \in AllFeedIds |-> 0],
             settled |-> [f \in AllFeedIds |-> "none"]]
  /\ last' = NoOp
  /\ UNCHANGED feeds
  /\ allUnchanged

\* for (...; i < activeFeeds.length; ...): batch.map(feed =>
\* this.fetchFeed(feed.id)) starts the calls of the group in one turn
AllLaunch ==
  /\ all.pc = "loop"
  /\ all.i < Len(all.activeFeeds)
  /\ LET batch == Batch(all.activeFeeds, all.i) IN
     all' = [all EXCEPT !.pc = "await", !.batch = batch,
                        !.inflight = @ \cup batch,
                        !.calls = [f \in AllFeedIds |->
                                     IF f \in batch THEN @[f] + 1 ELSE @[f]]]
  /\ last' = NoOp
  /\ UNCHANGED feeds
  /\ allUnchanged

\* one fetchFeed(feedId) of the call runs to its return, for a document
\* without new entries: it returns at the guard for a feed that is not
\* stored or inactive, in the catch when the retrieval or a statement
\* throws, and otherwise after lastFetched is written
AllFetchFeed(feedId) ==
  /\ all.pc \in {"loop", "await"}
  /\ feedId \in all.inflight
  /\ \/ /\ ~FeedFetchable(feeds, feedId)
        /\ last' = FetchFailedWith(feedId, "not found or inactive")
        /\ all' = [all EXCEPT !.inflight = @ \ {feedId}, !.settled[feedId] = "failed"]
        /\ UNCHANGED feeds
     \/ /\ FeedFetchable(feeds, feedId)
        /\ last' = FetchFailed(feedId)
        /\ all' = [all EXCEPT !.inflight = @ \ {feedId}, !.settled[feedId] = "failed"]
        /\ UNCHANGED feeds
     \/ /\ FeedFetchable(feeds, feedId)
        /\ feeds' = SetLastFetched(feeds, feedId)
        /\ last' = [op |-> "fetchFeed", feedId |-> feedId, success |-> TRUE,
                    articlesAdded |-> 0, maxArticles |-> GetMaxArticlesPerFeed(maxSetting),
                    trimmed |-> FALSE,
                    cascaded |-> Cascaded(workspace_items, report_items), error |-> NULL]
        /\ all' = [all EXCEPT !.inflight = @ \ {feedId}, !.settled[feedId] = "fulfilled"]
  /\ allUnchanged

\* await Promise.allSettled(...) resumes; i += BATCH_SIZE
AllAdvance ==
  /\ all.pc = "await"
  /\ AllSettled(all.batch, all.inflight)
  /\ all' = [all EXCEPT !.pc = "loop", !.i = @ + BATCH_SIZE]
  /\ last' = NoOp
  /\ UNCHANGED feeds
  /\ allUnchanged

\* the loop ends and fetchAllFeeds() resolves
AllReturn ==
  /\ all.pc = "loop"
  /\ all.i >= Len(all.activeFeeds)
  /\ all' = [all EXCEPT !.pc = "done"]
  /\ last' = [op |-> "fetchAllFeeds", status |-> "resolved"]
  /\ UNCHANGED feeds
  /\ allUnchanged

AllPatchRequest == \E f \in AllPatchIds, b \in BOOLEAN : PatchFeed(f, b)

\* ---- one fetchAllFeeds call while feeds are switched off and on
NextAll ==
  \/ AllStart
  \/ AllLaunch
  \/ \E f \in AllFeedIds : AllFetchFeed(f)
  \/ AllAdvance
  \/ AllReturn
  \/ AllPatchRequest

SpecAll == InitAll /\ [][NextAll]_vars

\* ---- the same call, where every step that can be taken is taken in the
\* end: the runtime resumes the call, and every fetchFeed settles
SpecAllLive ==
  /\ SpecAll
  /\ WF_vars(AllStart \/ AllLaunch \/ AllAdvance \/ AllReturn)
  /\ \A f \in AllFeedIds : WF_vars(AllFetchFeed(f))

Range(seq) == {seq[k] : k \in 1..Len(seq)}

Running == all.pc \in {"loop", "await"}

\* a fetchFeed call starts only when none is in flight, after every feed of
\* the earlier positions has settled, and the calls started together are
\* those of the next (at most BATCH_SIZE) positions of the list
LaunchAfterSettled ==
  (Running /\ all'.pc # "idle" /\ all'.inflight \ all.inflight # {}) =>
    /\ all.inflight = {}
    /\ \A k \in 1..all.i : all.settled[all.activeFeeds[k]] # "none"
    /\ all'.inflight \ all.inflight =
         {all.activeFeeds[k] :
            k \in {j \in 1..Len(all.activeFeeds) : all.i < j /\ j <= all.i + 5}}

\* C19: during a fetchAllFeeds call at most 5 of its fetchFeed calls are
\* in flight, the feeds are taken in consecutive groups of at most 5, and
\* no fetchFeed of a group starts before every fetchFeed of the group
\* before it has settled.
C19_GroupsOfFive ==
  /\ [](all.pc # "idle" => Cardinality(all.inflight) <= 5)
  /\ [][LaunchAfterSettled]_vars

\* C19 witness: six active feeds; the five of the first group have settled,
\* one of them failed, and the sixth is in flight alone
C19_Witness ==
  /\ all.pc = "await" /\ all.i = 5
  /\ Len(all.activeFeeds) = 6
  /\ all.inflight = {6}
  /\ \A f \in 1..5 : all.settled[f] # "none"
  /\ all.settled[2] = "failed"

\* the list the call works on is the feeds that are active when it is read
ListIsActiveFeeds ==
  (all.pc = "idle" /\ all'.pc # "idle") =>
    Range(all'.activeFeeds) = {f.id : f \in {g \in feeds : g.isActive}}

\* C20: a fetchAllFeeds call calls fetchFeed once for every feed that was
\* active when it read the list and never for another feed, also when
\* fetches of other feeds fail; no feed is fetched twice; and when every
\* fetchFeed settles, the call resolves.
C20_EachActiveFeedOnce ==
  /\ [](all.pc # "idle" =>
          \A f \in AllFeedIds :
            /\ all.calls[f] <= 1
            /\ all.calls[f] = 1 => f \in Range(all.activeFeeds))
  /\ [](all.pc = "done" =>
          \A f \in Range(all.activeFeeds) :
            all.calls[f] = 1 /\ all.settled[f] # "none")
  /\ [][ListIsActiveFeeds]_vars
  /\ (all.pc # "idle") ~> (all.pc = "done")

\* C20 witness: the call has resolved; one feed's fetch failed, another's
\* succeeded, and a feed switched on after the list was read was not fetched
C20_Witness ==
  /\ all.pc = "done"
  /\ \E f \in Range(all.activeFeeds) : all.settled[f] = "failed"
  /\ \E f \in Range(all.activeFeeds) : all.settled[f] = "fulfilled"
  /\ \E f \in feeds :
       f.isActive /\ f.id \notin Range(all.activeFeeds) /\ all.calls[f.id] = 0

\* the call takes the first maxArticles entries of the document, as they
\* stand in the document
TakesFirstEntries ==
  \A doc \in Documents :
    FetchParseDoc(1, doc, ParseLog(doc)) =>
      LET cap == GetMaxArticlesPerFeed(maxSetting) IN
      /\ Len(fetch'[1].items) = IF Len(doc) <= cap THEN Len(doc) ELSE cap
      /\ \A k \in 1..Len(fetch'[1].items) : fetch'[1].items[k] = doc[k]
      /\ fetch'[1].maxArticles = cap

\* an article is inserted only for the entry the loop is at, which has a
\* link and a title; an entry without one of them is passed over
InsertsOnlyValidEntries ==
  /\ articles' \ articles # {} =>
       /\ fetch[1].pc = "insert"
       /\ LET item == Head(fetch[1].items) IN
          /\ item.link # 0 /\ item.title
          /\ \A a \in articles' \ articles : a.url = item.link /\ a.feedId = fetch[1].feedId
       /\ fetch'[1].items = Tail(fetch[1].items)
       /\ fetch'[1].articlesAdded = fetch[1].articlesAdded + 1
  /\ (/\ fetch[1].pc = "loop" /\ fetch[1].items # <<>>
      /\ (Head(fetch[1].items).link = 0 \/ ~Head(fetch[1].items).title)
      /\ fetch' # fetch) =>
       /\ fetch'[1].pc = "loop"
       /\ fetch'[1].items = Tail(fetch[1].items)
       /\ fetch'[1].articlesAdded = fetch[1].articlesAdded
       /\ articles' = articles

SuccessStep == last'.op = "fetchFeed" /\ last'.success

\* what the trim of a successful call deletes: rows of the call's feed only,
\* none of them published later than a row of the feed that is kept,
\* nothing when the feed holds at most maxArticles rows, and otherwise
\* all but maxArticles rows
TrimDeletesOldest ==
  SuccessStep =>
    LET f == last'.feedId
        own == ArticlesOf(f)
        deleted == articles \ articles'
    IN /\ articles' \subseteq articles
       /\ deleted \subseteq own
       /\ \A d \in deleted : \A k \in own \ deleted : d.publishedAt <= k.publishedAt
       /\ Cardinality(own) <= last'.maxArticles => deleted = {}
       /\ deleted # {} => Cardinality(own \ deleted) = last'.maxArticles
       /\ last'.trimmed => Cardinality(own \ deleted) <= last'.maxArticles

SettingsTable == <<settings, maxSetting>>

SixDefaults == <<DefaultSettings, {DefaultMaxArticles}>>

\* C23 as stated: whatever the outcome of POST /settings/reset, the settings
\* table afterwards holds exactly what it held before the request or
\* exactly the six defaults, and after a successful reset the six defaults.
C23_ResetAllOrNothing ==
  last.op = "resetSettings" =>
    /\ SettingsTable = last.before \/ SettingsTable = SixDefaults
    /\ last.status = 200 => SettingsTable = SixDefaults

\* ========================================================= truncateText
MaxCut == 7           \* largest maxLength; texts have up to MaxCut + 1 characters

\* characters of a text: a sentence end, a paragraph break, a space, a letter
TruncChars == {".", "\n", " ", "a"}
TruncTexts == UNION {[1..n -> TruncChars] : n \in 0..(MaxCut + 1)}

\* text.substring(start, end), for 0 <= start
Substring(text, start, end) == SubSeq(text, start + 1, Min(end, Len(text)))

\* (mutant) text.indexOf(ch)
LastIndexOf_First(text, ch) ==
  IF \E k \in 1..Len(text) : text[k] = ch
    THEN (CHOOSE k \in 1..Len(text) :
            text[k] = ch /\ \A j \in 1..(k - 1) : text[j] # ch) - 1
    ELSE -1

\* text.lastIndexOf(ch): 0-based, -1 when ch does not occur
LastIndexOf(text, ch) ==
  IF \E k \in 1..Len(text) : text[k] = ch
    THEN (CHOOSE k \in 1..Len(text) :
            text[k] = ch /\ \A j \in (k + 1)..Len(text) : text[j] # ch) - 1
    ELSE -1

\* AIService.truncateText; x > maxLength * 0.7 is 10 * x > 7 * maxLength
truncateText(text, maxLength) ==
  IF Len(text) <= maxLength THEN text
  ELSE LET truncated == Substring(text, 0, maxLength)
           lastSentence == LastIndexOf(truncated, ".")
           lastParagraph == LastIndexOf(truncated, "\n")
           lastSpace == LastIndexOf(truncated, " ")
       IN IF 10 * lastSentence > 7 * maxLength
            THEN Substring(truncated, 0, lastSentence + 1)
          ELSE IF 10 * lastParagraph > 5 * maxLength
            THEN Substring(truncated, 0, lastParagraph)
          ELSE IF lastSpace > 0
            THEN Substring(truncated, 0, lastSpace)
          ELSE truncated

\* a text is about to be truncated
InitTruncate ==
  /\ feeds = {[id |-> f, isActive |-> TRUE, lastFetched |-> NULL] : f \in FeedIds}
  /\ articles = {}
  /\ workspace_items = {}
  /\ reports = {}
  /\ report_items = {}
  /\ maxSetting = {MaxSetting}
  /\ settings = DefaultSettings
  /\ nextArticleId = 1
  /\ nextWsId = 1
  /\ nextReportId = 1
  /\ fetch = [p \in FetchProcs |-> IdleFetch]
  /\ add = [p \in AddProcs |-> IdleAdd]
  /\ rep = IdleRep
  /\ exp = IdleExp
  /\ all = IdleAll
  /\ reset = IdleReset
  /\ snapshotOf = NoSnapshots
  /\ \E text \in TruncTexts, maxLength \in 1..MaxCut :
       last = [op |-> "text", text |-> text, maxLength |-> maxLength]

Truncate ==
  /\ last.op = "text"
  /\ last' = [op |-> "truncateText", text |-> last.text, maxLength |-> last.maxLength,
              result |-> truncateText(last.text, last.maxLength)]
  /\ UNCHANGED <<dbVars, nextArticleId, nextWsId, nextReportId, fetch, add, rep, exp,
                 all, reset, snapshotOf>>

NextTruncate == Truncate

SpecTruncate == InitTruncate /\ [][NextTruncate]_vars

\* the 1-based positions of ch among the first n characters of text
PositionsIn(text, n, ch) == {k \in 1..n : text[k] = ch}

\* the first n characters of text
Prefix(text, n) == [k \in 1..n |-> text[k]]

\* C24: truncateText returns text when it has at most maxLength characters;
\* otherwise a prefix of at most maxLength characters: through the last
\* '.' of the first maxLength characters when its index exceeds 0.7 *
\* maxLength, else up to the last newline when its index exceeds 0.5 *
\* maxLength, else up to the last space when its index exceeds 0, else the
\* first maxLength characters.
C24_TruncateAtBoundary ==
  last.op = "truncateText" =>
    LET text == last.text
        n == last.maxLength
        dots == PositionsIn(text, n, ".")
        breaks == PositionsIn(text, n, "\n")
        spaces == PositionsIn(text, n, " ")
    IN IF Len(text) <= n THEN last.result = text
       ELSE /\ Len(last.result) <= n
            /\ last.result = Prefix(text, Len(last.result))
            /\ IF dots # {} /\ 10 * (Max(dots) - 1) > 7 * n
                 THEN Len(last.result) = Max(dots)
               ELSE IF breaks # {} /\ 10 * (Max(breaks) - 1) > 5 * n
                 THEN Len(last.result) = Max(breaks) - 1
               ELSE IF spaces # {} /\ Max(spaces) - 1 > 0
                 THEN Len(last.result) = Max(spaces) - 1
               ELSE Len(last.result) = n

\* C24 witness: the last sentence end of the first 7 characters is the
\* sixth character, after a paragraph break and a space; the text of 8
\* characters is cut right after that sentence end
C24_Witness ==
  /\ last.op = "truncateText" /\ last.maxLength = 7
  /\ last.text = <<"a", " ", "a", "a", "\n", ".", "a", "a">>
  /\ last.result = <<"a", " ", "a", "a", "\n", ".">>

\* ======================================================== createSnippet
MaxSnippet == 2       \* maxLength of createSnippet (200 in fetchFeed), scaled
MaxFieldLen == 3      \* characters in one field of a parsed entry

\* characters of an entry's fields: sentence end, space, letter, tag brackets
FieldChars == {".", " ", "a", "<", ">"}
FieldTexts == UNION {[1..n -> FieldChars] : n \in 0..MaxFieldLen}

\* a parsed entry; the empty text stands for a field that is absent or ''
RssItems == [content : FieldTexts, contentSnippet : FieldTexts, title : {<<>>, <<"a">>}]

\* .replace(/<[^>]*>/g, '')
RECURSIVE StripTags(_)
StripTags(text) ==
  IF text = <<>> THEN <<>>
  ELSE IF Head(text) = "<" /\ \E k \in 2..Len(text) : text[k] = ">"
    THEN LET close == CHOOSE k \in 2..Len(text) :
                        text[k] = ">" /\ \A j \in 2..(k - 1) : text[j] # ">"
         IN StripTags(SubSeq(text, close + 1, Len(text)))
    ELSE <<Head(text)>> \o StripTags(Tail(text))

\* .replace(/\s+/g, ' ')
RECURSIVE CollapseSpaces(_)
CollapseSpaces(text) ==
  IF Len(text) < 2 THEN text
  ELSE IF text[1] = " " /\ text[2] = " " THEN CollapseSpaces(Tail(text))
  ELSE <<Head(text)>> \o CollapseSpaces(Tail(text))

\* .trim()
Trim(text) ==
  LET inked == {k \in 1..Len(text) : text[k] # " "} IN
  IF inked = {} THEN <<>>
  ELSE SubSeq(text, CHOOSE k \in inked : \A j \in inked : k <= j, Max(inked))

\* cleanText, for texts without HTML entities
cleanText(text) == IF text = <<>> THEN <<>> ELSE Trim(CollapseSpaces(StripTags(text)))

\* a || b on texts
OrText(a, b) == IF a # <<>> THEN a ELSE b

\* extractContent(item)
extractContent(item) ==
  LET content == OrText(item.content, item.contentSnippet)
  IN cleanText(IF content = <<>> /\ item.title # <<>> THEN item.title ELSE content)

\* createSnippet(item, maxLength)
createSnippet(item, maxLength) ==
  LET content == OrText(item.contentSnippet, OrText(item.content, item.title))
      cleaned == cleanText(content)
  IN IF Len(cleaned) <= maxLength THEN cleaned
     ELSE LET truncated == Substring(cleaned, 0, maxLength)
              lastSentence == LastIndexOf(truncated, ".")
              lastSpace == LastIndexOf(truncated, " ")
          IN IF 10 * lastSentence > 7 * maxLength
               THEN Substring(truncated, 0, lastSentence + 1)
             ELSE IF lastSpace > 0
               THEN Substring(truncated, 0, lastSpace) \o <<".", ".", ".">>
             ELSE truncated \o <<".", ".", ".">>

\* an entry of a parsed document is about to be stored
InitSnippet ==
  /\ feeds = {[id |-> f, isActive |-> TRUE, lastFetched |-> NULL] : f \in FeedIds}
  /\ articles = {}
  /\ workspace_items = {}
  /\ reports = {}
  /\ report_items = {}
  /\ maxSetting = {MaxSetting}
  /\ settings = DefaultSettings
  /\ nextArticleId = 1
  /\ nextWsId = 1
  /\ nextReportId = 1
  /\ fetch = [p \in FetchProcs |-> IdleFetch]
  /\ add = [p \in AddProcs |-> IdleAdd]
  /\ rep = IdleRep
  /\ exp = IdleExp
  /\ all = IdleAll
  /\ reset = IdleReset
  /\ snapshotOf = NoSnapshots
  /\ \E item \in RssItems : last = [op |-> "item", item |-> item]

\* const article = { content: this.extractContent(item), snippet:
\* this.createSnippet(item), ... }
MakeArticle ==
  /\ last.op = "item"
  /\ last' = [op |-> "article", item |-> last.item,
              content |-> extractContent(last.item),
              snippet |-> createSnippet(last.item, MaxSnippet)]
  /\ UNCHANGED <<dbVars, nextArticleId, nextWsId, nextReportId, fetch, add, rep, exp,
                 all, reset, snapshotOf>>

NextSnippet == MakeArticle

SpecSnippet == InitSnippet /\ [][NextSnippet]_vars

\* C25 as stated: the snippet is made from the cleaned text of the source
\* the content is made from (content, else content-snippet, else title);
\* it never exceeds the cap; a cleaned text within the cap is kept whole, a
\* longer one is cut after the last '.' of the first cap characters when
\* its index exceeds 0.7 * cap, else before the last space, else at the
\* cap, with '...' appended unless it was cut at the sentence end.
C25_SnippetWithinCap ==
  last.op = "article" =>
    LET item == last.item
        cleaned == cleanText(OrText(item.content, OrText(item.contentSnippet, item.title)))
        dots == PositionsIn(cleaned, Min(MaxSnippet, Len(cleaned)), ".")
        spaces == PositionsIn(cleaned, Min(MaxSnippet, Len(cleaned)), " ")
        ellipsis == <<".", ".", ".">>
    IN /\ Len(last.snippet) <= MaxSnippet
       /\ IF Len(cleaned) <= MaxSnippet THEN last.snippet = cleaned
          ELSE IF dots # {} /\ 10 * (Max(dots) - 1) > 7 * MaxSnippet
            THEN last.snippet = Prefix(cleaned, Max(dots))
          ELSE IF spaces # {} /\ Max(spaces) - 1 > 0
            THEN last.snippet = Prefix(cleaned, Max(spaces) - 1) \o ellipsis
          ELSE last.snippet = Prefix(cleaned, MaxSnippet) \o ellipsis

\* ================================================ searchSimilarArticles
MaxSearchArticles == 4    \* stored articles of the search specification
MaxLimit == 2             \* largest limit of a search

\* str.toLowerCase(), on texts over {a, A, b, c, d, space}
LowerText(text) == [k \in DOMAIN text |-> IF text[k] = "A" THEN "a" ELSE text[k]]

\* new Set(str.split(/\s+/)): the maximal runs without a space, and the
\* empty word when the text is empty or begins or ends with a space
WordsOf(text) ==
  LET n == Len(text)
      runs == {<<i, j>> \in (1..n) \X (1..n) :
                 /\ i <= j
                 /\ \A k \in i..j : text[k] # " "
                 /\ (i = 1 \/ text[i - 1] = " ")
                 /\ (j = n \/ text[j + 1] = " ")}
  IN {SubSeq(text, r[1], r[2]) : r \in runs}
       \cup (IF n = 0 \/ text[1] = " " \/ text[n] = " " THEN {<<>>} ELSE {})

\* str.includes(sub)
Includes(text, sub) ==
  \E i \in 1..(Len(text) + 1) :
    /\ i + Len(sub) - 1 <= Len(text)
    /\ SubSeq(text, i, i + Len(sub) - 1) = sub

\* (mutant) the similarity is returned as it is
Clamp_None(num, den) == num

\* Math.min(similarity, 1.0), the similarity being num / den
Clamp(num, den) == Min(num, den)

\* calculateTextSimilarity(query, article): the score as the fraction
\* num / den with den = 10 * union.size, so that 0.3 is 3 * union.size
calculateTextSimilarity(query, article) ==
  LET queryWords == WordsOf(LowerText(query))
      articleText == article.title \o <<" ">> \o article.snippet \o <<" ">> \o article.content
      articleWords == WordsOf(LowerText(articleText))
      intersection == queryWords \cap articleWords
      union == queryWords \cup articleWords
      den == 10 * Cardinality(union)
      jaccard == 10 * Cardinality(intersection)
      titleBoost == IF Includes(LowerText(article.title), query)
                      THEN 3 * Cardinality(union) ELSE 0
      categoryBoost == IF article.category # <<>> /\ Includes(LowerText(article.category), query)
                         THEN Cardinality(union) ELSE 0
  IN [num |-> Clamp(jaccard + titleBoost + categoryBoost, den), den |-> den]

\* a.score > b.score
ScoreAbove(a, b) == a.num * b.den > b.num * a.den

\* 'SELECT * FROM articles WHERE is_archived = 0 ORDER BY published_at DESC'
\* with 'LIMIT ?' when options.limit is truthy: the pages the store may
\* return, rows of equal published_at in any order
GetArticles(limit) ==
  LET rows == {a \in articles : ~a.isArchived}
      n == Cardinality(rows)
      ordered == {s \in [1..n -> rows] :
                    /\ \A i, j \in 1..n : i # j => s[i] # s[j]
                    /\ \A i, j \in 1..n : i < j => s[i].publishedAt >= s[j].publishedAt}
  IN {IF limit # 0 THEN SubSeq(s, 1, Min(limit, n)) ELSE s : s \in ordered}

\* .filter(result => result.score > 0)
RECURSIVE FilterScored(_)
FilterScored(results) ==
  IF results = <<>> THEN <<>>
  ELSE IF Head(results).score.num > 0
    THEN <<Head(results)>> \o FilterScored(Tail(results))
    ELSE FilterScored(Tail(results))

\* .sort((a, b) => b.score - a.score): stable, highest score first
SortByScore(results) ==
  LET n == Len(results)
      rank(i) == Cardinality({j \in 1..n :
                   \/ ScoreAbove(results[j].score, results[i].score)
                   \/ (~ScoreAbove(results[i].score, results[j].score) /\ j < i)})
  IN [k \in 1..n |-> results[CHOOSE i \in 1..n : rank(i) = k - 1]]

\* the texts of a stored article: title, snippet, content and category
\* (the empty text is no category)
ArticleTexts ==
  { [title |-> <<"a">>, snippet |-> <<"a">>, content |-> <<"a">>, category |-> <<>>],
    [title |-> <<"A", " ", "b">>, snippet |-> <<"b">>, content |-> <<"b">>,
     category |-> <<"a">>],
    [title |-> <<"c">>, snippet |-> <<"c">>, content |-> <<"c">>, category |-> <<>>],
    [title |-> <<"c">>, snippet |-> <<"c">>, content |-> <<"c">>, category |-> <<"a">>] }

\* query texts of the searches
Queries == {<<"a">>, <<"A">>, <<"b">>, <<"d">>}

SearchRow(id, texts, isArchived) ==
  [id |-> id, feedId |-> 1, url |-> id, publishedAt |-> PubDateOf(id),
   isArchived |-> isArchived, title |-> texts.title, snippet |-> texts.snippet,
   content |-> texts.content, category |-> texts.category]

InitSearch ==
  /\ feeds = {[id |-> f, isActive |-> TRUE, lastFetched |-> NULL] : f \in FeedIds}
  /\ \E texts \in [1..MaxSearchArticles -> ArticleTexts],
        isArchived \in [1..MaxSearchArticles -> BOOLEAN] :
       articles = {SearchRow(id, texts[id], isArchived[id]) :
                     id \in 1..MaxSearchArticles}
  /\ workspace_items = {}
  /\ reports = {}
  /\ report_items = {}
  /\ maxSetting = {MaxSetting}
  /\ settings = DefaultSettings
  /\ nextArticleId = MaxSearchArticles + 1
  /\ nextWsId = 1
  /\ nextReportId = 1
  /\ fetch = [p \in FetchProcs |-> IdleFetch]
  /\ add = [p \in AddProcs |-> IdleAdd]
  /\ rep = IdleRep
  /\ exp = IdleExp
  /\ all = IdleAll
  /\ reset = IdleReset
  /\ snapshotOf = NoSnapshots
  /\ last = NoOp

searchUnchanged ==
  UNCHANGED <<dbVars, nextArticleId, nextWsId, nextReportId, fetch, add, rep, exp,
              all, reset, snapshotOf>>

\* searchSimilarArticles(query, limit) returns its list
searchSimilarArticles(query, limit) ==
  /\ \E page \in GetArticles(limit * 3) :
       LET scored == [k \in 1..Len(page) |->
                        [articleId |-> page[k].id,
                         score |-> calculateTextSimilarity(LowerText(query), page[k])]]
       IN last' = [op |-> "search", status |-> "ok", query |-> query, limit |-> limit,
                   results |-> Slice(SortByScore(FilterScored(scored)), limit)]
  /\ searchUnchanged

\* generateEmbedding or the store throws: 'Failed to perform semantic search'
SearchThrows ==
  /\ last' = [op |-> "search", status |-> "error"]
  /\ searchUnchanged

NextSearch ==
  \/ \E query \in Queries, limit \in 0..MaxLimit : searchSimilarArticles(query, limit)
  \/ SearchThrows

SpecSearch == InitSearch /\ [][NextSearch]_vars

\* the article a result names
ArticleOfResult(r) == CHOOSE a \in articles : a.id = r.articleId

\* C26: a returned list has at most limit results, in non-increasing
\* score order, every score above 0 and at most 1.0 and equal to the
\* similarity of its article; the results are distinct non-archived
\* articles that all lie in one set of the at most 3 * limit most recently
\* published non-archived articles.
C26_SearchResults ==
  (last.op = "search" /\ last.status = "ok") =>
    LET results == last.results
        n == Len(results)
        rows == {a \in articles : ~a.isArchived}
    IN /\ n <= last.limit
       /\ \A i, j \in 1..n : i < j =>
            /\ ~ScoreAbove(results[j].score, results[i].score)
            /\ results[i].articleId # results[j].articleId
       /\ \A i \in 1..n :
            /\ results[i].score.num > 0
            /\ results[i].score.num <= results[i].score.den
            /\ \E a \in rows : a.id = results[i].articleId
            /\ calculateTextSimilarity(LowerText(last.query), ArticleOfResult(results[i])).num > 0
       /\ \E K \in SUBSET rows :
            /\ Cardinality(K) <= 3 * last.limit
            /\ \A k \in K : \A d \in rows \ K : k.publishedAt >= d.publishedAt
            /\ \A i \in 1..n : results[i].articleId \in Ids(K)

\* a search with limit 2 returns two results of different scores, the
\* clamped score 1.0 first, while an archived article matches the query
\* and a stored non-archived article scores 0
C26_Witness ==
  /\ last.op = "search"
  /\ last.status = "ok"
  /\ last.limit = 2
  /\ Len(last.results) = 2
  /\ last.results[1].score.num = last.results[1].score.den
  /\ ScoreAbove(last.results[1].score, last.results[2].score)
  /\ \E a \in articles :
       a.isArchived /\ calculateTextSimilarity(LowerText(last.query), a).num > 0
  /\ \E a \in articles :
       ~a.isArchived /\ calculateTextSimilarity(LowerText(last.query), a).num = 0

\* =================================================== order uniqueness
\* C27 as stated: whatever adds, removes and reorders (partial lists
\* included) have been served, no two workspace items have the same order.
C27_OrderValuesUnique ==
  \A x, y \in workspace_items : x.id # y.id => x.order # y.order

\* ===================================================== isEdited
\* ---- edits among adds, removes, reorders, report creations and fetches,
\* served one at a time
NextEdited ==
  \/ Quiet /\ AddRequest(1)
  \/ AddSteps(1)
  \/ Quiet /\ \E id \in WsIds, cc \in {Undefined, "x"}, ca \in {Undefined, NULL} :
                UpdateWorkspaceItem(id, cc, ca)
  \/ Quiet /\ \E itemIds \in ReorderLists : Reorder(TRUE, itemIds)
  \/ Quiet /\ ReportCreate(TRUE, Undefined, TRUE)
  \/ ReportSteps
  \/ Quiet /\ FetchStart(1, 1)
  \/ FetchParseThrows(1)
  \/ \E n \in 0..MaxDocLen : \E doc \in [1..n -> {[link |-> u, title |-> TRUE] : u \in Urls}] :
       FetchParseDoc(1, doc, NoOp)
  \/ FetchCheck(1)
  \/ FetchInsert(1)
  \/ FetchUpdate(1)
  \/ FetchCleanup(1)

SpecEdited == Init /\ [][NextEdited]_vars

\* C28: an item is inserted with isEdited = FALSE; no step sets isEdited of
\* a stored item back to FALSE; and the only step that sets it to TRUE is
\* an updateWorkspaceItem of that item, answered 200, that supplied
\* customContent or customAnalysis.
C28_IsEditedMonotone ==
  [][\A y \in workspace_items' :
       IF y.id \in Ids(workspace_items)
         THEN LET x == Item(y.id) IN
              /\ x.isEdited => y.isEdited
              /\ (~x.isEdited /\ y.isEdited) =>
                   /\ last'.op = "updateWorkspaceItem"
                   /\ last'.status = 200
                   /\ last'.id = y.id
                   /\ (last'.customContent # Undefined \/ last'.customAnalysis # Undefined)
         ELSE ~y.isEdited]_vars

\* a successful fetch has just returned while a report exists and the
\* workspace holds an edited item and an item that was never edited
C28_Witness ==
  /\ last.op = "fetchFeed"
  /\ last.success
  /\ reports # {}
  /\ \E x, y \in workspace_items : x.isEdited /\ ~y.isEdited

\* ================================================ createReport atomicity
\* C29 as stated: after an error answer of POST /reports no report row and
\* no report item of that request is stored; after a 201 answer with
\* copyWorkspace the report and all its snapshot report items are stored.
C29_CreateReportAtomic ==
  last.op = "createReport" =>
    /\ last.status # 201 =>
         /\ last.id \notin Ids(reports)
         /\ \A ri \in report_items : ri.reportId # last.id
    /\ (last.status = 201 /\ last.copyWorkspace) =>
         /\ last.id \in Ids(reports)
         /\ SnapshotRows(last.id, last.items) \subseteq report_items

\* ================================================ fetchFeed, call by call
MaxTwiceId == 4       \* article rows ever stored in the call-by-call specification

\* 'for (const item of recentItems)' run to its end with no other request
\* in between: the articles table, the next fresh id and articlesAdded
RECURSIVE LoopResult(_, _, _, _, _)
LoopResult(arts, nextId, feedId, items, articlesAdded) ==
  IF items = <<>>
    THEN [articles |-> arts, nextArticleId |-> nextId, articlesAdded |-> articlesAdded]
  ELSE LET item == Head(items) IN
    IF item.link = 0 \/ ~item.title
      THEN LoopResult(arts, nextId, feedId, Tail(items), articlesAdded)
    ELSE IF ExistingArticle(arts, item.link)
      THEN LoopResult(arts, nextId, feedId, Tail(items), articlesAdded)
    ELSE IF InsertArticleAccepted(arts, feeds, feedId, item.link)
      THEN LoopResult(arts \cup {[id |-> nextId, feedId |-> feedId, url |-> item.link,
                                  publishedAt |-> PubDateOf(item.link)]},
                      nextId + 1, feedId, Tail(items), articlesAdded + 1)
    ELSE LoopResult(arts, nextId, feedId, Tail(items), articlesAdded)

\* fetchFeed(feedId) from its first statement to its return, with no other
\* request served meanwhile; doc is the document parseURL returns
FetchFeedCall(feedId, doc) ==
  LET maxArticles == GetMaxArticlesPerFeed(maxSetting)
      recentItems == Slice(doc, maxArticles)
      loop == LoopResult(articles, nextArticleId, feedId, recentItems, 0)
      result(success, articlesAdded) ==
        [op |-> "fetchFeed", feedId |-> feedId, doc |-> doc, success |-> success,
         articlesAdded |-> articlesAdded, maxArticles |-> maxArticles]
  IN /\ loop.nextArticleId - 1 <= MaxTwiceId
     /\ \/ /\ ~FeedFetchable(feeds, feedId)
           /\ last' = result(FALSE, 0)
           /\ UNCHANGED <<feeds, articles, workspace_items, report_items, nextArticleId>>
        \/ /\ FeedFetchable(feeds, feedId)
           /\ last' = result(FALSE, 0)
           /\ UNCHANGED <<feeds, articles, workspace_items, report_items, nextArticleId>>
        \/ /\ FeedFetchable(feeds, feedId)
           /\ articles' = loop.articles
           /\ nextArticleId' = loop.nextArticleId
           /\ last' = result(FALSE, 0)
           /\ UNCHANGED <<feeds, workspace_items, report_items>>
        \/ /\ FeedFetchable(feeds, feedId)
           /\ feeds' = SetLastFetched(feeds, feedId)
           /\ nextArticleId' = loop.nextArticleId
           /\ \/ \E K \in KeepSets(loop.articles, feedId, maxArticles) :
                   DeleteArticlesTo({a \in loop.articles : a.feedId # feedId} \cup K)
              \/ /\ articles' = loop.articles
                 /\ UNCHANGED <<workspace_items, report_items>>
           /\ last' = result(TRUE, loop.articlesAdded)
     /\ UNCHANGED <<reports, maxSetting, settings, nextWsId, nextReportId, fetch, add,
                    rep, exp, all, reset, snapshotOf>>

\* the store some earlier fetches left: every url stored for one feed or
\* not stored
InitTwice ==
  /\ feeds = {[id |-> f, isActive |-> TRUE, lastFetched |-> NULL] : f \in FeedIds}
  /\ \E feedOf \in [Urls -> FeedIds \cup {0}] :
       articles = {[id |-> u, feedId |-> feedOf[u], url |-> u, publishedAt |-> PubDateOf(u)]
                     : u \in {v \in Urls : feedOf[v] # 0}}
  /\ workspace_items = {}
  /\ reports = {}
  /\ report_items = {}
  /\ maxSetting \in {{v} : v \in 1..MaxSetting}
  /\ settings = DefaultSettings
  /\ nextArticleId = MaxUrl + 1
  /\ nextWsId = 1
  /\ nextReportId = 1
  /\ fetch = [p \in FetchProcs |-> IdleFetch]
  /\ add = [p \in AddProcs |-> IdleAdd]
  /\ rep = IdleRep
  /\ exp = IdleExp
  /\ all = IdleAll
  /\ reset = IdleReset
  /\ snapshotOf = NoSnapshots
  /\ last = NoOp

\* ---- fetchFeed calls one after the other while the setting changes
NextTwice ==
  \/ \E f \in FeedIds, doc \in Documents : FetchFeedCall(f, doc)
  \/ \E v \in 1..MaxSetting : PatchSettings(v)

SpecTwice == InitTwice /\ [][NextTwice]_vars

\* C30 as stated: a successful fetchFeed(f) that directly follows a
\* successful fetchFeed(f) on the same document with the same
\* maxArticlesPerFeed returns articlesAdded = 0 and leaves the articles
\* table as the first call left it.
C30_SecondFetchChangesNothing ==
  [][( /\ last.op = "fetchFeed"
       /\ last.success
       /\ last'.op = "fetchFeed"
       /\ last'.success
       /\ last'.feedId = last.feedId
       /\ last'.doc = last.doc
       /\ last'.maxArticles = last.maxArticles ) =>
         /\ last'.articlesAdded = 0
         /\ articles' = articles]_vars

====
